---- MODULE Spec2Model ----
(***************************************************************************)
(* Session lifecycle engine of agent-firewall: the single-slot gate, the   *)
(* POST /v1/tasks, GET /state and POST /abort handlers, the background     *)
(* runWorker supervisor, the per-session serializer of FileSessionStore    *)
(* and the startup recovery.  Every await of the code that performs I/O is *)
(* a separate step; the synchronous code that follows the await belongs to *)
(* the step that resumes it.                                               *)
(***************************************************************************)
EXTENDS Integers, Sequences, FiniteSets, TLC

\* ---------------------------------------------------------------- bounds
MaxSessions == 2
NumWorkspaces == 2

Ids == 1..MaxSessions
Workspaces == 1..NumWorkspaces

\* the null of currentSessionId / currentWorkspace
Null == 0

\* callers of the serialized store operations of one session
Kinds == {"create", "progress", "final", "error", "abort", "recovery"}

VARIABLES
  phase,             \* index.ts: "starting" (recovery runs) or "listening"
  recIdx,            \* markAbortedOnStartup: position in the directory listing
  currentSessionId,  \* GlobalConcurrencyGate
  currentWorkspace,  \* GlobalConcurrencyGate
  abortControllers,  \* ids with an entry in the abortControllers map
  aborted,           \* ids whose AbortController exists and has signal.aborted
  locks,             \* FileSessionStore.locks: the chain of pending operations
  ops,               \* position and data of each store operation
  taskFile,          \* <dataDir>/<id>/task.json
  stateFile,         \* <dataDir>/<id>/shared_state.json
  tmpFile,           \* <dataDir>/<id>/shared_state.json.tmp
  nextId,            \* the next value uuidv4() returns
  postPc,            \* POST /v1/tasks handler of each session
  sanitized,         \* workspace_root captured by the handler and runWorker
  worker,            \* runWorker / worker.run of each session
  abortPc,           \* POST /v1/sessions/:id/abort handler of each session
  resp,              \* the HTTP response sent by the last step, if any
  abort200,          \* history: ids for which an abort answered 200
  left,              \* history: what the previous process left on disk
  run,               \* one call of ClaudeCodeWorker.run followed step by step
  calls,             \* the calls made on a GlobalConcurrencyGate, in order
  req,               \* the HTTP request that entered the middleware chain last
  io                 \* texts and files followed for the read endpoints and the store

vars == <<phase, recIdx, currentSessionId, currentWorkspace, abortControllers,
          aborted, locks, ops, taskFile, stateFile, tmpFile, nextId, postPc,
          sanitized, worker, abortPc, resp, abort200, left, run, calls, req, io>>

\* the variables of the session lifecycle engine
engine == <<phase, recIdx, currentSessionId, currentWorkspace, abortControllers,
            aborted, locks, ops, taskFile, stateFile, tmpFile, nextId, postPc,
            sanitized, worker, abortPc, resp, abort200, left>>

\* ------------------------------------------------------------ documents
NoFile == [kind |-> "none"]
Partial == [kind |-> "partial"]
Json(doc) == [kind |-> "json", doc |-> doc]

IsJson(f) == f.kind = "json"

InitialState(s) ==
  [session_id |-> s, goal |-> "goal", status |-> "running",
   turns_completed |-> 0, progress |-> "[]", blockers |-> "[]",
   files_changed |-> "[]", artifacts |-> "[]", fallback_events |-> "[]",
   cost_usd |-> "null", error_summary |-> "null"]

IdentityFields == {"session_id", "goal"}

\* { ...current, ...safePatch }
Merge(current, patch) ==
  [f \in DOMAIN current \cup (DOMAIN patch \ IdentityFields) |->
     IF f \in DOMAIN patch \ IdentityFields THEN patch[f] ELSE current[f]]

Terminal == {"done", "failed", "aborted"}

\* ------------------------------------------------------------- patches
ExitCodes == {0, 1}
Results == [exit_code : ExitCodes, timed_out : BOOLEAN, fallback_events : {"result"}]

\* exitCode: null of a child that was killed by a signal or never spawned
NoExitCode == -1

\* variant: the exit code decides before the timeout flag
FinalStatusExitFirst(r) == IF r.exit_code = 0 THEN "done" ELSE "failed"

FinalStatus(r) ==
  IF r.timed_out THEN "failed" ELSE IF r.exit_code = 0 THEN "done" ELSE "failed"

\* variant: a failure written without a summary
ErrorSummaryNone(r) == "null"

ErrorSummary(r) ==
  IF r.timed_out THEN "Worker timed out"
  ELSE IF r.exit_code = NoExitCode THEN "Worker exited with code null"
  ELSE IF r.exit_code # 0 THEN "Worker exited with code 1" ELSE "null"

ProgressPatch == [turns_completed |-> 1, blockers |-> "result"]

\* variant: the terminal status is written without the result lists
FinalPatchStatusOnly(r) ==
  [status |-> FinalStatus(r), error_summary |-> ErrorSummary(r)]

\* app.ts 350-358: the patch of the final updateState
FinalPatch(r) ==
  [status |-> FinalStatus(r), files_changed |-> "result",
   artifacts |-> "result", fallback_events |-> r.fallback_events,
   cost_usd |-> "result", blockers |-> "result",
   error_summary |-> ErrorSummary(r)]

ErrorPatch == [status |-> "failed", error_summary |-> "Worker error"]

AbortPatch == [status |-> "aborted", error_summary |-> "Aborted by client request"]

RecoveryPatch ==
  [status |-> "aborted",
   error_summary |-> "Server restarted while session was running"]

\* ---------------------------------------------------------------- gate
\* variant: acquire that does not look at the current holder
GateFreeAlways == TRUE

\* acquire(workspace, sessionId) succeeds iff no session is stored
GateFree == currentSessionId = Null

activeSessionId == currentSessionId

\* variant: release that compares the session id only
ReleaseMatchesSession(w, s) == currentSessionId = s

\* release(workspace, sessionId): the pair after the call
ReleaseMatches(w, s) == currentWorkspace = w /\ currentSessionId = s

ReleasedSession(w, s) == IF ReleaseMatches(w, s) THEN Null ELSE currentSessionId

ReleasedWorkspace(w, s) == IF ReleaseMatches(w, s) THEN Null ELSE currentWorkspace

\* ---------------------------------------------------------- serializer
NoPatch == [f \in {} |-> "null"]

IdleOp == [pc |-> "idle", patch |-> NoPatch, doc |-> NoFile]

\* variant: no serializer, fn runs as soon as it is called
RunnableAtOnce(s, k) == TRUE

\* withLock: fn runs once every operation queued before it has settled
Runnable(s, k) == locks[s] # <<>> /\ Head(locks[s]) = k

\* withLock: the operation joins the chain of its session
Enqueued(s, k) == [locks EXCEPT ![s] = Append(@, k)]

\* the operation settles and leaves the chain
Settled(lk, s, k) == [lk EXCEPT ![s] = SelectSeq(@, LAMBDA x : x # k)]

\* a call of create (k = "create", patch is the initial state) or updateState
Queue(s, k, patch) ==
  /\ locks' = Enqueued(s, k)
  /\ ops' = [ops EXCEPT ![s][k] = [pc |-> "queued", patch |-> patch, doc |-> NoFile]]

NoResp == [route |-> "none", sid |-> Null, code |-> 0, body |-> NoFile]

Response(route, s, code, body) ==
  [route |-> route, sid |-> s, code |-> code, body |-> body]

IdleWorker == "idle"

\* no worker run is followed, no request is recorded
NoRun == [pc |-> "none"]

NoReq == [route |-> "none"]

NoIo == [pc |-> "none"]

\* ---------------------------------------------------------------- Init
Init ==
  /\ phase = "starting"
  /\ recIdx = 1
  /\ currentSessionId = Null
  /\ currentWorkspace = Null
  /\ abortControllers = {}
  /\ aborted = {}
  /\ locks = [s \in Ids |-> <<>>]
  /\ ops = [s \in Ids |-> [k \in Kinds |-> IdleOp]]
  /\ taskFile = [s \in Ids |-> NoFile]
  /\ stateFile = [s \in Ids |-> NoFile]
  /\ tmpFile = [s \in Ids |-> NoFile]
  /\ nextId = 1
  /\ postPc = [s \in Ids |-> "none"]
  /\ sanitized = [s \in Ids |-> Null]
  /\ worker = [s \in Ids |-> IdleWorker]
  /\ abortPc = [s \in Ids |-> "idle"]
  /\ resp = NoResp
  /\ abort200 = {}
  /\ left = [s \in Ids |-> "none"]
  /\ run = NoRun
  /\ calls = <<>>
  /\ req = NoReq
  /\ io = NoIo


\* ------------------------------------------------------ POST /v1/tasks
\* variant: a gate per workspace, busy only for the holder's workspace
PostTaskPerWorkspace(w) ==
  /\ phase = "listening"
  /\ IF ~GateFree /\ currentWorkspace = w
       THEN /\ resp' = Response("tasks", activeSessionId, 503, NoFile)
            /\ UNCHANGED <<currentSessionId, currentWorkspace, locks, ops,
                           nextId, postPc, sanitized>>
       ELSE /\ nextId \in Ids
            /\ currentSessionId' = nextId
            /\ currentWorkspace' = w
            /\ nextId' = nextId + 1
            /\ postPc' = [postPc EXCEPT ![nextId] = "creating"]
            /\ sanitized' = [sanitized EXCEPT ![nextId] = w]
            /\ Queue(nextId, "create", InitialState(nextId))
            /\ resp' = NoResp
  /\ UNCHANGED <<phase, recIdx, abortControllers, aborted, taskFile, stateFile,
                 tmpFile, worker, abortPc, abort200, left>>
  /\ UNCHANGED <<run, calls, req, io>>

\* app.ts 52-59 and 61-71: the request has passed Policy, PathGuard and the
\* PromptBuilder.  A busy gate answers 503; otherwise the gate is taken and
\* store.create is called, which joins the chain of the new session.
TasksHandler(w) ==
  /\ phase = "listening"
  /\ IF ~GateFree
       THEN /\ resp' = Response("tasks", activeSessionId, 503, NoFile)
            /\ UNCHANGED <<currentSessionId, currentWorkspace, locks, ops,
                           nextId, postPc, sanitized>>
       ELSE /\ nextId \in Ids
            /\ currentSessionId' = nextId
            /\ currentWorkspace' = w
            /\ nextId' = nextId + 1
            /\ postPc' = [postPc EXCEPT ![nextId] = "creating"]
            /\ sanitized' = [sanitized EXCEPT ![nextId] = w]
            /\ Queue(nextId, "create", InitialState(nextId))
            /\ resp' = NoResp
  /\ UNCHANGED <<phase, recIdx, abortControllers, aborted, taskFile, stateFile,
                 tmpFile, worker, abortPc, abort200, left>>

\* the handler run for a request that passed validation
PostTask(w) ==
  /\ TasksHandler(w)
  /\ UNCHANGED <<run, calls, req, io>>

\* sessionStore.ts 33-44: access(task.json) fails with ENOENT, mkdir, then
\* the two writeFile calls of Promise.all are started.
CreateStart(s) ==
  /\ ops[s]["create"].pc = "queued"
  /\ Runnable(s, "create")
  /\ taskFile[s].kind = "none"
  /\ ops' = [ops EXCEPT ![s]["create"].pc = "writing"]
  /\ resp' = NoResp
  /\ UNCHANGED <<phase, recIdx, currentSessionId, currentWorkspace,
                 abortControllers, aborted, locks, taskFile, stateFile,
                 tmpFile, nextId, postPc, sanitized, worker, abortPc,
                 abort200, left>>
  /\ UNCHANGED <<run, calls, req, io>>

\* sessionStore.ts 63: writeFile(task.json) opens (creates, truncates) ...
CreateOpenTask(s) ==
  /\ ops[s]["create"].pc = "writing"
  /\ taskFile[s].kind = "none"
  /\ taskFile' = [taskFile EXCEPT ![s] = Partial]
  /\ resp' = NoResp
  /\ UNCHANGED <<phase, recIdx, currentSessionId, currentWorkspace,
                 abortControllers, aborted, locks, ops, stateFile, tmpFile,
                 nextId, postPc, sanitized, worker, abortPc, abort200, left>>
  /\ UNCHANGED <<run, calls, req, io>>

\* ... and then writes the document.
CreateWriteTask(s) ==
  /\ ops[s]["create"].pc = "writing"
  /\ taskFile[s].kind = "partial"
  /\ taskFile' = [taskFile EXCEPT ![s] = Json([session_id |-> s])]
  /\ resp' = NoResp
  /\ UNCHANGED <<phase, recIdx, currentSessionId, currentWorkspace,
                 abortControllers, aborted, locks, ops, stateFile, tmpFile,
                 nextId, postPc, sanitized, worker, abortPc, abort200, left>>
  /\ UNCHANGED <<run, calls, req, io>>

\* sessionStore.ts 64: writeFile(shared_state.json) opens the file itself ...
CreateOpenState(s) ==
  /\ ops[s]["create"].pc = "writing"
  /\ stateFile[s].kind = "none"
  /\ stateFile' = [stateFile EXCEPT ![s] = Partial]
  /\ resp' = NoResp
  /\ UNCHANGED <<phase, recIdx, currentSessionId, currentWorkspace,
                 abortControllers, aborted, locks, ops, taskFile, tmpFile,
                 nextId, postPc, sanitized, worker, abortPc, abort200, left>>
  /\ UNCHANGED <<run, calls, req, io>>

\* ... and then writes the initial state into it.
CreateWriteState(s) ==
  /\ ops[s]["create"].pc = "writing"
  /\ stateFile[s].kind = "partial"
  /\ stateFile' = [stateFile EXCEPT ![s] = Json(ops[s]["create"].patch)]
  /\ resp' = NoResp
  /\ UNCHANGED <<phase, recIdx, currentSessionId, currentWorkspace,
                 abortControllers, aborted, locks, ops, taskFile, tmpFile,
                 nextId, postPc, sanitized, worker, abortPc, abort200, left>>
  /\ UNCHANGED <<run, calls, req, io>>

\* variant: the handler does not wait for the writes of create
CreateNotAwaited(s) == TRUE

\* both writes of create have finished
CreateWritten(s) == IsJson(taskFile[s]) /\ IsJson(stateFile[s])

\* app.ts 77-81: create resolved: 202, the AbortController is registered and
\* runWorker is started; all of it runs before any other I/O completes.
CreateDone(s) ==
  /\ ops[s]["create"].pc = "writing"
  /\ CreateWritten(s)
  /\ ops' = [ops EXCEPT ![s]["create"] = IdleOp]
  /\ locks' = Settled(locks, s, "create")
  /\ resp' = Response("tasks", s, 202, NoFile)
  /\ postPc' = [postPc EXCEPT ![s] = "accepted"]
  /\ abortControllers' = abortControllers \cup {s}
  /\ worker' = [worker EXCEPT ![s] = "started"]
  /\ UNCHANGED <<phase, recIdx, currentSessionId, currentWorkspace, aborted,
                 taskFile, stateFile, tmpFile, nextId, sanitized, abortPc,
                 abort200, left>>
  /\ UNCHANGED <<run, calls, req, io>>


\* ------------------------------------------------- updateState (store)
\* sessionStore.ts 96-106: once runnable, read the current state and merge
\* the patch into it.
UpdRead(s, k) ==
  /\ k # "create"
  /\ ops[s][k].pc = "queued"
  /\ Runnable(s, k)
  /\ IsJson(stateFile[s])
  /\ ops' = [ops EXCEPT ![s][k].pc = "merged",
                         ![s][k].doc = Json(Merge(stateFile[s].doc, ops[s][k].patch))]
  /\ resp' = NoResp
  /\ UNCHANGED <<phase, recIdx, currentSessionId, currentWorkspace,
                 abortControllers, aborted, locks, taskFile, stateFile,
                 tmpFile, nextId, postPc, sanitized, worker, abortPc,
                 abort200, left>>
  /\ UNCHANGED <<run, calls, req, io>>

\* sessionStore.ts 108-110: write the merged document to shared_state.json.tmp
UpdWriteTmp(s, k) ==
  /\ ops[s][k].pc = "merged"
  /\ tmpFile' = [tmpFile EXCEPT ![s] = ops[s][k].doc]
  /\ ops' = [ops EXCEPT ![s][k].pc = "tmp"]
  /\ resp' = NoResp
  /\ UNCHANGED <<phase, recIdx, currentSessionId, currentWorkspace,
                 abortControllers, aborted, locks, taskFile, stateFile,
                 nextId, postPc, sanitized, worker, abortPc, abort200, left>>
  /\ UNCHANGED <<run, calls, req, io>>

\* sessionStore.ts 111: rename the temporary file over shared_state.json
UpdRename(s, k) ==
  /\ ops[s][k].pc = "tmp"
  /\ IsJson(tmpFile[s])
  /\ stateFile' = [stateFile EXCEPT ![s] = tmpFile[s]]
  /\ tmpFile' = [tmpFile EXCEPT ![s] = NoFile]
  /\ ops' = [ops EXCEPT ![s][k].pc = "renamed"]
  /\ resp' = NoResp
  /\ UNCHANGED <<phase, recIdx, currentSessionId, currentWorkspace,
                 abortControllers, aborted, locks, taskFile, nextId, postPc,
                 sanitized, worker, abortPc, abort200, left>>
  /\ UNCHANGED <<run, calls, req, io>>

\* the promise of an updateState call resolves: the operation leaves the chain
Resolved(s, k) ==
  /\ ops[s][k].pc = "renamed"
  /\ ops' = [ops EXCEPT ![s][k] = IdleOp]
  /\ locks' = Settled(locks, s, k)

\* ------------------------------------------------------------ runWorker
\* variant: a finally block that forgets the gate
FinallyKeepsGate(s) ==
  /\ UNCHANGED <<currentSessionId, currentWorkspace>>
  /\ abortControllers' = abortControllers \ {s}
  /\ aborted' = aborted \ {s}
  /\ worker' = [worker EXCEPT ![s] = "settled"]
  /\ sanitized' = [sanitized EXCEPT ![s] = Null]

\* app.ts 366-369: finally { gate.release(...); abortControllers.delete(...) }
Finally(s) ==
  /\ currentSessionId' = ReleasedSession(sanitized[s], s)
  /\ currentWorkspace' = ReleasedWorkspace(sanitized[s], s)
  /\ abortControllers' = abortControllers \ {s}
  /\ aborted' = aborted \ {s}
  /\ worker' = [worker EXCEPT ![s] = "settled"]
  /\ sanitized' = [sanitized EXCEPT ![s] = Null]

\* claudeCode.ts 99-178: the agent has exited (after the flag fallbacks, if
\* any), the logs are written and onProgress is called; app.ts 335-338: the
\* callback returns at once when the signal is set, else it calls updateState.
WorkerProgress(s) ==
  /\ worker[s] = "started"
  /\ IF s \in aborted
       THEN /\ worker' = [worker EXCEPT ![s] = "gather"]
            /\ UNCHANGED <<locks, ops>>
       ELSE /\ worker' = [worker EXCEPT ![s] = "progress"]
            /\ Queue(s, "progress", ProgressPatch)
  /\ resp' = NoResp
  /\ UNCHANGED <<phase, recIdx, currentSessionId, currentWorkspace,
                 abortControllers, aborted, taskFile, stateFile, tmpFile,
                 nextId, postPc, sanitized, abortPc, abort200, left>>
  /\ UNCHANGED <<run, calls, req, io>>

\* app.ts 337: the updateState of the progress callback resolved
ProgressDone(s) ==
  /\ worker[s] = "progress"
  /\ Resolved(s, "progress")
  /\ worker' = [worker EXCEPT ![s] = "gather"]
  /\ resp' = NoResp
  /\ UNCHANGED <<phase, recIdx, currentSessionId, currentWorkspace,
                 abortControllers, aborted, taskFile, stateFile, tmpFile,
                 nextId, postPc, sanitized, abortPc, abort200, left>>
  /\ UNCHANGED <<run, calls, req, io>>

\* claudeCode.ts 181-209 and app.ts 341-358: worker.run resolves; an aborted
\* session returns through finally, any other calls the final updateState.
WorkerResolve(s, r) ==
  /\ worker[s] = "gather"
  /\ IF s \in aborted
       THEN /\ Finally(s)
            /\ UNCHANGED <<locks, ops>>
       ELSE /\ worker' = [worker EXCEPT ![s] = "final"]
            /\ Queue(s, "final", FinalPatch(r))
            /\ UNCHANGED <<currentSessionId, currentWorkspace, abortControllers,
                           sanitized, aborted>>
  /\ resp' = NoResp
  /\ UNCHANGED <<phase, recIdx, taskFile, stateFile, tmpFile, nextId,
                 postPc, abortPc, abort200, left>>
  /\ UNCHANGED <<run, calls, req, io>>

\* app.ts 359-365: worker.run rejects; unless aborted, the session is marked
\* failed with the error's message.
WorkerReject(s) ==
  /\ worker[s] \in {"started", "gather"}
  /\ IF s \in aborted
       THEN /\ Finally(s)
            /\ UNCHANGED <<locks, ops>>
       ELSE /\ worker' = [worker EXCEPT ![s] = "error"]
            /\ Queue(s, "error", ErrorPatch)
            /\ UNCHANGED <<currentSessionId, currentWorkspace, abortControllers,
                           sanitized, aborted>>
  /\ resp' = NoResp
  /\ UNCHANGED <<phase, recIdx, taskFile, stateFile, tmpFile, nextId,
                 postPc, abortPc, abort200, left>>
  /\ UNCHANGED <<run, calls, req, io>>

\* app.ts 350-358 then 366-369: the final updateState resolved
FinalDone(s) ==
  /\ worker[s] = "final"
  /\ Resolved(s, "final")
  /\ Finally(s)
  /\ resp' = NoResp
  /\ UNCHANGED <<phase, recIdx, taskFile, stateFile, tmpFile, nextId,
                 postPc, abortPc, abort200, left>>
  /\ UNCHANGED <<run, calls, req, io>>

\* app.ts 361-364 then 366-369: the updateState of the catch block resolved
ErrorDone(s) ==
  /\ worker[s] = "error"
  /\ Resolved(s, "error")
  /\ Finally(s)
  /\ resp' = NoResp
  /\ UNCHANGED <<phase, recIdx, taskFile, stateFile, tmpFile, nextId,
                 postPc, abortPc, abort200, left>>
  /\ UNCHANGED <<run, calls, req, io>>

\* ----------------------------------------- POST /v1/sessions/:id/abort
\* variant: the abort handler does not look at the status it read
AbortHandlerAnyStatus(s) ==
  /\ phase = "listening"
  /\ abortPc[s] = "idle"
  /\ IF ~IsJson(stateFile[s])
       THEN /\ resp' = Response("abort", s,
                         IF stateFile[s].kind = "none" THEN 404 ELSE 500, NoFile)
            /\ UNCHANGED abortPc
       ELSE /\ abortPc' = [abortPc EXCEPT ![s] = "sawRunning"]
            /\ resp' = NoResp
  /\ UNCHANGED <<phase, recIdx, currentSessionId, currentWorkspace,
                 abortControllers, aborted, locks, ops, taskFile, stateFile,
                 tmpFile, nextId, postPc, sanitized, worker, abort200, left>>

\* app.ts 102-111: getState; 404 without a session, 409 unless running.  A
\* document that does not parse makes getState throw (500).
AbortHandler(s) ==
  /\ phase = "listening"
  /\ abortPc[s] = "idle"
  /\ IF ~IsJson(stateFile[s])
       THEN /\ resp' = Response("abort", s,
                         IF stateFile[s].kind = "none" THEN 404 ELSE 500, NoFile)
            /\ UNCHANGED abortPc
       ELSE IF stateFile[s].doc.status # "running"
       THEN /\ resp' = Response("abort", s, 409, stateFile[s])
            /\ UNCHANGED abortPc
       ELSE /\ abortPc' = [abortPc EXCEPT ![s] = "sawRunning"]
            /\ resp' = NoResp
  /\ UNCHANGED <<phase, recIdx, currentSessionId, currentWorkspace,
                 abortControllers, aborted, locks, ops, taskFile, stateFile,
                 tmpFile, nextId, postPc, sanitized, worker, abort200, left>>

\* the handler run for an authenticated request
AbortRead(s) ==
  /\ AbortHandler(s)
  /\ UNCHANGED <<run, calls, req, io>>

\* variant: the abort handler also releases the gate
AbortSignalReleasing(s) ==
  /\ abortPc[s] = "sawRunning"
  /\ aborted' = IF s \in abortControllers THEN aborted \cup {s} ELSE aborted
  /\ Queue(s, "abort", AbortPatch)
  /\ abortPc' = [abortPc EXCEPT ![s] = "waitUpdate"]
  /\ currentSessionId' = ReleasedSession(sanitized[s], s)
  /\ currentWorkspace' = ReleasedWorkspace(sanitized[s], s)
  /\ resp' = NoResp
  /\ UNCHANGED <<phase, recIdx, abortControllers, taskFile, stateFile, tmpFile,
                 nextId, postPc, sanitized, worker, abort200, left>>
  /\ UNCHANGED <<run, calls, req, io>>

\* app.ts 113-122: signal the controller if the map has one, then updateState
AbortSignal(s) ==
  /\ abortPc[s] = "sawRunning"
  /\ aborted' = IF s \in abortControllers THEN aborted \cup {s} ELSE aborted
  /\ Queue(s, "abort", AbortPatch)
  /\ abortPc' = [abortPc EXCEPT ![s] = "waitUpdate"]
  /\ resp' = NoResp
  /\ UNCHANGED <<phase, recIdx, currentSessionId, currentWorkspace,
                 abortControllers, taskFile, stateFile, tmpFile, nextId,
                 postPc, sanitized, worker, abort200, left>>
  /\ UNCHANGED <<run, calls, req, io>>

\* app.ts 124: the updateState resolved: 200 {status: "aborted"}
AbortDone(s) ==
  /\ abortPc[s] = "waitUpdate"
  /\ Resolved(s, "abort")
  /\ abortPc' = [abortPc EXCEPT ![s] = "idle"]
  /\ resp' = Response("abort", s, 200, NoFile)
  /\ abort200' = abort200 \cup {s}
  /\ UNCHANGED <<phase, recIdx, currentSessionId, currentWorkspace,
                 abortControllers, aborted, taskFile, stateFile, tmpFile,
                 nextId, postPc, sanitized, worker, left>>
  /\ UNCHANGED <<run, calls, req, io>>

\* ------------------------------------------ GET /v1/sessions/:id/state
\* app.ts 91-98 and sessionStore.ts 69-79: one read of shared_state.json
StateHandler(s) ==
  /\ phase = "listening"
  /\ resp' = Response("state", s,
               IF IsJson(stateFile[s]) THEN 200
               ELSE IF stateFile[s].kind = "none" THEN 404 ELSE 500,
               stateFile[s])
  /\ UNCHANGED <<phase, recIdx, currentSessionId, currentWorkspace,
                 abortControllers, aborted, locks, ops, taskFile, stateFile,
                 tmpFile, nextId, postPc, sanitized, worker, abortPc, abort200,
                 left>>

\* the handler run for an authenticated request
GetState(s) ==
  /\ StateHandler(s)
  /\ UNCHANGED <<run, calls, req, io>>


\* ------------------------------------------------- startup (index.ts)
\* variant: every parsed state is marked aborted
NeedsRecoveryAny(f) == IsJson(f)

\* sessionStore.ts 153-162: the next directory entry; a running session gets
\* updateState, anything else (absent, unparsable, terminal) is skipped.
NeedsRecovery(f) == IsJson(f) /\ f.doc.status = "running"

RecScan ==
  /\ phase = "starting"
  /\ recIdx \in Ids
  /\ ops[recIdx]["recovery"].pc = "idle"
  /\ IF NeedsRecovery(stateFile[recIdx])
       THEN /\ Queue(recIdx, "recovery", RecoveryPatch)
            /\ UNCHANGED recIdx
       ELSE /\ recIdx' = recIdx + 1
            /\ UNCHANGED <<locks, ops>>
  /\ resp' = NoResp
  /\ UNCHANGED <<phase, currentSessionId, currentWorkspace, abortControllers,
                 aborted, taskFile, stateFile, tmpFile, nextId, postPc,
                 sanitized, worker, abortPc, abort200, left>>
  /\ UNCHANGED <<run, calls, req, io>>

\* sessionStore.ts 158-161: the updateState of the recovery resolved
RecoveryDone ==
  /\ phase = "starting"
  /\ recIdx \in Ids
  /\ Resolved(recIdx, "recovery")
  /\ recIdx' = recIdx + 1
  /\ resp' = NoResp
  /\ UNCHANGED <<phase, currentSessionId, currentWorkspace, abortControllers,
                 aborted, taskFile, stateFile, tmpFile, nextId, postPc,
                 sanitized, worker, abortPc, abort200, left>>
  /\ UNCHANGED <<run, calls, req, io>>

\* variant: listen without awaiting markAbortedOnStartup
RecoveryNotAwaited == TRUE

\* index.ts 13-15: markAbortedOnStartup has returned
RecoveryComplete == recIdx = MaxSessions + 1

\* index.ts 15: app.listen
Listen ==
  /\ phase = "starting"
  /\ RecoveryComplete
  /\ phase' = "listening"
  /\ resp' = NoResp
  /\ UNCHANGED <<recIdx, currentSessionId, currentWorkspace, abortControllers,
                 aborted, locks, ops, taskFile, stateFile, tmpFile, nextId,
                 postPc, sanitized, worker, abortPc, abort200, left>>
  /\ UNCHANGED <<run, calls, req, io>>

LeftBy(f) ==
  IF f.kind = "none" THEN "none"
  ELSE IF IsJson(f) /\ f.doc.status = "running" THEN "running" ELSE "other"

\* The process stops and is started again: the files stay, everything in
\* memory (gate, controllers, serializer, handlers, supervisors) is new.
Crash ==
  /\ nextId > 1
  /\ phase' = "starting"
  /\ recIdx' = 1
  /\ currentSessionId' = Null
  /\ currentWorkspace' = Null
  /\ abortControllers' = {}
  /\ aborted' = {}
  /\ locks' = [s \in Ids |-> <<>>]
  /\ ops' = [s \in Ids |-> [k \in Kinds |-> IdleOp]]
  /\ postPc' = [s \in Ids |-> "none"]
  /\ sanitized' = [s \in Ids |-> Null]
  /\ worker' = [s \in Ids |-> IdleWorker]
  /\ abortPc' = [s \in Ids |-> "idle"]
  /\ resp' = NoResp
  /\ left' = [s \in Ids |-> LeftBy(stateFile[s])]
  /\ UNCHANGED <<taskFile, stateFile, tmpFile, nextId, abort200>>
  /\ UNCHANGED <<run, calls, req, io>>

\* ------------------------------------------------------ specification
\* every step that can change the gate, the store or a session
Lifecycle ==
  \/ \E w \in Workspaces : PostTask(w)
  \/ \E s \in Ids : CreateStart(s)
  \/ \E s \in Ids : CreateOpenTask(s)
  \/ \E s \in Ids : CreateWriteTask(s)
  \/ \E s \in Ids : CreateOpenState(s)
  \/ \E s \in Ids : CreateWriteState(s)
  \/ \E s \in Ids : CreateDone(s)
  \/ \E s \in Ids, k \in Kinds : UpdRead(s, k)
  \/ \E s \in Ids, k \in Kinds : UpdWriteTmp(s, k)
  \/ \E s \in Ids, k \in Kinds : UpdRename(s, k)
  \/ \E s \in Ids : WorkerProgress(s)
  \/ \E s \in Ids : ProgressDone(s)
  \/ \E s \in Ids, r \in Results : WorkerResolve(s, r)
  \/ \E s \in Ids : WorkerReject(s)
  \/ \E s \in Ids : FinalDone(s)
  \/ \E s \in Ids : ErrorDone(s)
  \/ \E s \in Ids : AbortRead(s)
  \/ \E s \in Ids : AbortSignal(s)
  \/ \E s \in Ids : AbortDone(s)
  \/ RecScan
  \/ RecoveryDone
  \/ Listen
  \/ Crash

Next ==
  \/ Lifecycle
  \/ \E s \in Ids : GetState(s)

Spec == Init /\ [][Next]_vars

\* ------------------------------------------------------- I/O failures
\* A file operation of the create or updateState call of a session's own
\* handler or supervisor fails (access, mkdir, read, write or rename throws):
\* the call rejects and leaves the chain.
CanReject(s, k) ==
  IF ops[s][k].pc = "queued" THEN Runnable(s, k)
  ELSE ops[s][k].pc \in {"writing", "merged", "tmp"}

\* app.ts 72-75: store.create rejected: release the gate and rethrow (500)
CreateFailed(s) ==
  /\ postPc[s] = "creating"
  /\ CanReject(s, "create")
  /\ ops' = [ops EXCEPT ![s]["create"] = IdleOp]
  /\ locks' = Settled(locks, s, "create")
  /\ currentSessionId' = ReleasedSession(sanitized[s], s)
  /\ currentWorkspace' = ReleasedWorkspace(sanitized[s], s)
  /\ sanitized' = [sanitized EXCEPT ![s] = Null]
  /\ postPc' = [postPc EXCEPT ![s] = "error"]
  /\ resp' = Response("tasks", Null, 500, NoFile)
  /\ UNCHANGED <<phase, recIdx, abortControllers, aborted, taskFile, stateFile,
                 tmpFile, nextId, worker, abortPc, abort200, left>>
  /\ UNCHANGED <<run, calls, req, io>>

\* the rejected call k leaves the chain and, unless the signal is set, the
\* catch block of runWorker calls updateState with the error patch
CatchAfter(s, k) ==
  IF s \in aborted
    THEN /\ ops' = [ops EXCEPT ![s][k] = IdleOp]
         /\ locks' = Settled(locks, s, k)
         /\ Finally(s)
    ELSE /\ ops' = [ops EXCEPT ![s][k] = IdleOp,
                               ![s]["error"] = [pc |-> "queued", patch |-> ErrorPatch,
                                                doc |-> NoFile]]
         /\ locks' = [Settled(locks, s, k) EXCEPT ![s] = Append(@, "error")]
         /\ worker' = [worker EXCEPT ![s] = "error"]
         /\ UNCHANGED <<currentSessionId, currentWorkspace, abortControllers,
                        sanitized, aborted>>

\* app.ts 337 and 359-365: the updateState of the progress callback rejected,
\* so onProgress and with it worker.run reject
ProgressFailed(s) ==
  /\ worker[s] = "progress"
  /\ CanReject(s, "progress")
  /\ CatchAfter(s, "progress")
  /\ resp' = NoResp
  /\ UNCHANGED <<phase, recIdx, taskFile, stateFile, tmpFile, nextId,
                 postPc, abortPc, abort200, left>>
  /\ UNCHANGED <<run, calls, req, io>>

\* app.ts 350-365: the final updateState rejected
FinalFailed(s) ==
  /\ worker[s] = "final"
  /\ CanReject(s, "final")
  /\ CatchAfter(s, "final")
  /\ resp' = NoResp
  /\ UNCHANGED <<phase, recIdx, taskFile, stateFile, tmpFile, nextId,
                 postPc, abortPc, abort200, left>>
  /\ UNCHANGED <<run, calls, req, io>>

\* app.ts 361-369: the updateState of the catch block rejected: the error
\* leaves runWorker through finally
ErrorFailed(s) ==
  /\ worker[s] = "error"
  /\ CanReject(s, "error")
  /\ ops' = [ops EXCEPT ![s]["error"] = IdleOp]
  /\ locks' = Settled(locks, s, "error")
  /\ Finally(s)
  /\ resp' = NoResp
  /\ UNCHANGED <<phase, recIdx, taskFile, stateFile, tmpFile, nextId,
                 postPc, abortPc, abort200, left>>
  /\ UNCHANGED <<run, calls, req, io>>

\* GET /state only reads and is left out here
NextF ==
  \/ Lifecycle
  \/ \E s \in Ids : CreateFailed(s)
  \/ \E s \in Ids : ProgressFailed(s)
  \/ \E s \in Ids : FinalFailed(s)
  \/ \E s \in Ids : ErrorFailed(s)

\* the specification with failing file operations on the path of a session
\* from its submission to the end of runWorker
SpecF == Init /\ [][NextF]_vars

\* steps the event loop takes by itself once they are ready: file operations,
StoreStep(s) ==
  \/ CreateStart(s)
  \/ CreateOpenTask(s)
  \/ CreateWriteTask(s)
  \/ CreateOpenState(s)
  \/ CreateWriteState(s)
  \/ \E k \in Kinds : UpdRead(s, k) \/ UpdWriteTmp(s, k) \/ UpdRename(s, k)

\* handlers resuming after their await,
HandlerStep(s) == CreateDone(s) \/ AbortSignal(s) \/ AbortDone(s)

\* and the supervisor: worker.run always settles, and runWorker resumes when
\* its await resolves
WorkerStep(s) ==
  \/ WorkerProgress(s)
  \/ ProgressDone(s)
  \/ \E r \in Results : WorkerResolve(s, r)
  \/ FinalDone(s)
  \/ ErrorDone(s)

Internal == \E s \in Ids : StoreStep(s) \/ HandlerStep(s) \/ WorkerStep(s)

\* a step that is ready is not postponed forever
Fairness == WF_vars(Internal)

FairSpecF == SpecF /\ Fairness


\* ============================================================== claims
\* worker.run of s has been called and has not settled
WorkerRunUnsettled(s) == worker[s] \in {"started", "progress", "gather"}

\* runWorker of s has not reached the end of its finally block
RunWorkerPending(s) == worker[s] \in {"started", "progress", "gather", "final", "error"}

\* sessions that acquired the gate and have not released it yet
Holders == {s \in Ids : postPc[s] = "creating" \/ RunWorkerPending(s)}

\* C1: at most one session holds the gate at any instant, activeSessionId()
\* is that holder (null when there is none), at most one worker.run is
\* unsettled, and a worker run is in flight only for the gate's holder.
C1_SingleHolder ==
  /\ Cardinality(Holders) <= 1
  /\ \A s \in Holders : activeSessionId = s /\ currentWorkspace = sanitized[s]
  /\ Holders = {} => activeSessionId = Null /\ currentWorkspace = Null
  /\ Cardinality({s \in Ids : WorkerRunUnsettled(s)}) <= 1
  /\ \A s \in Ids : WorkerRunUnsettled(s) => activeSessionId = s

\* C1 witness: a second session's worker runs, after the first session
\* released the gate, while a submission has just been refused.
C1_Witness ==
  /\ worker[1] = "settled"
  /\ WorkerRunUnsettled(2)
  /\ activeSessionId = 2
  /\ resp = Response("tasks", 2, 503, NoFile)

\* C2: the abort handler never changes the gate; while the worker run of an
\* aborted session is unsettled the gate stays with that session, every
\* submission that reaches the gate is answered 503 naming it, and the gate
\* is acquired only when no worker run is unsettled.
C2_AbortKeepsGate ==
  [][/\ (phase' = "listening" /\ (abortPc' # abortPc \/ resp'.route = "abort"))
          => currentSessionId' = currentSessionId /\ currentWorkspace' = currentWorkspace
     /\ \A s \in Ids :
          (s \in aborted /\ WorkerRunUnsettled(s)) =>
             /\ currentSessionId = s
             /\ resp'.route = "tasks" => resp' = Response("tasks", s, 503, NoFile)
             /\ (phase' = "listening" /\ worker'[s] \in {"started", "progress", "gather"})
                  => currentSessionId' = s
     /\ (currentSessionId' # Null /\ currentSessionId' # currentSessionId)
          => \A s \in Ids : ~WorkerRunUnsettled(s)
    ]_vars

\* C2 witness: a submission is refused with 503 while the worker of an
\* aborted session, whose abort was already answered 200, is still running.
C2_Witness ==
  \E s \in Ids :
    /\ s \in aborted
    /\ s \in abort200
    /\ WorkerRunUnsettled(s)
    /\ resp = Response("tasks", s, 503, NoFile)


Status(s) == stateFile[s].doc.status

\* C4 (as claimed): once a terminal status is on disk, no later write
\* changes the session's state.
C4_TerminalIsFixpoint ==
  [][\A s \in Ids :
       (IsJson(stateFile[s]) /\ Status(s) \in Terminal) => stateFile'[s] = stateFile[s]
    ]_vars

\* C5 (as claimed): after an abort was answered 200 for a session, its state
\* on disk, which is what GET /state returns, is aborted with the client
\* abort summary, whatever the worker does afterwards.
C5_AbortedStays ==
  \A s \in abort200 :
    /\ IsJson(stateFile[s])
    /\ Status(s) = "aborted"
    /\ stateFile[s].doc.error_summary = "Aborted by client request"

InCritical(s, k) == ops[s][k].pc \in {"writing", "merged", "tmp", "renamed"}

\* C7: for one session the critical sections of create and updateState never
\* overlap and run in the order of the calls (the running one is the oldest
\* pending call), and every rename stores exactly the state it replaces merged
\* with its own patch, so no concurrent update is lost.
C7_Serialized ==
  /\ [](\A s \in Ids :
          /\ Cardinality({k \in Kinds : InCritical(s, k)}) <= 1
          /\ \A k \in Kinds : InCritical(s, k) => Head(locks[s]) = k)
  /\ [][\A s \in Ids, k \in Kinds :
          (ops[s][k].pc = "tmp" /\ ops'[s][k].pc = "renamed") =>
             stateFile'[s] = Json(Merge(stateFile[s].doc, ops[s][k].patch))
       ]_vars

\* C7 witness: a progress patch and a client abort patch were queued together
\* and both are in the state: turns_completed from the one, status from the
\* other.
C7_Witness ==
  \E s \in Ids :
    /\ ops[s]["abort"].pc = "renamed"
    /\ worker[s] = "gather"
    /\ stateFile[s].doc.turns_completed = 1
    /\ stateFile[s].doc.blockers = "result"
    /\ Status(s) = "aborted"

\* C8 (as claimed): a reader of shared_state.json never gets a partially
\* written document.
C8_NoPartialRead ==
  resp.route = "state" => resp.body.kind # "partial"

\* no abort request was made for session s
NoAbortRequest(s) ==
  abortPc[s] = "idle" /\ s \notin abort200 /\ ops[s]["abort"].pc = "idle"

\* C9 (as claimed): a GET /state made after the 202, with no other request in
\* between, observes status running and turns_completed 0, however far the
\* background worker has got.
C9_ImmediateGet ==
  \A s \in Ids :
    (resp.route = "state" /\ resp.sid = s /\ postPc[s] = "accepted"
       /\ NoAbortRequest(s))
      => /\ IsJson(resp.body)
         /\ resp.body.doc.status = "running"
         /\ resp.body.doc.turns_completed = 0

\* no supervisor or abort write of session s has reached the disk
NoWriteLanded(s) ==
  /\ worker[s] \in {"started", "progress"}
  /\ ops[s]["progress"].pc # "renamed"
  /\ ops[s]["abort"].pc # "renamed"
  /\ s \notin abort200

\* C9 (amended): create completes before the 202 is sent: at that moment the
\* stored state is the complete initial state (running, turns_completed 0)
\* and the worker has not started; after the 202 the document is always
\* complete, and it is the initial state until the first supervisor or abort
\* write lands.
C9_CreatedBefore202 ==
  /\ [][\A s \in Ids :
          resp' = Response("tasks", s, 202, NoFile) =>
            stateFile'[s] = Json(InitialState(s)) /\ worker[s] = "idle"
       ]_vars
  /\ [](\A s \in Ids :
          postPc[s] = "accepted" =>
            /\ IsJson(stateFile[s])
            /\ NoWriteLanded(s) => stateFile[s] = Json(InitialState(s)))

\* C9 witness: a GET /state answered after the 202, while the worker's
\* progress write is under way, returns the initial state.
C9_Witness ==
  \E s \in Ids :
    /\ postPc[s] = "accepted"
    /\ ops[s]["progress"].pc = "tmp"
    /\ resp = Response("state", s, 200, Json(InitialState(s)))

FinalFields == {"files_changed", "artifacts", "blockers", "fallback_events"}

\* C10 (as claimed): whenever the stored status is done or failed, the stored
\* files_changed, artifacts, blockers and fallback_events are those of the
\* worker's result, written with the status.
C10_AsClaimed ==
  \A s \in Ids :
    (IsJson(stateFile[s]) /\ Status(s) \in {"done", "failed"})
      => \A f \in FinalFields : stateFile[s].doc[f] = "result"

\* C10 (amended): a status done or failed written by the finalization (any
\* summary but the catch block's "Worker error") comes with the result's
\* files_changed, artifacts, blockers and fallback_events, written by the same
\* patch; and while the status is done or failed, whoever wrote it, no write
\* changes these four fields.
C10_FinalWithTerminal ==
  /\ [](\A s \in Ids :
          (/\ IsJson(stateFile[s])
           /\ Status(s) \in {"done", "failed"}
           /\ stateFile[s].doc.error_summary # "Worker error")
            => \A f \in FinalFields : stateFile[s].doc[f] = "result")
  /\ [][\A s \in Ids :
          (IsJson(stateFile[s]) /\ Status(s) \in {"done", "failed"}) =>
             \A f \in FinalFields : stateFile'[s].doc[f] = stateFile[s].doc[f]
       ]_vars

\* C10 witness: a reader gets status done together with the result lists.
C10_Witness ==
  \E s \in Ids :
    /\ resp.route = "state"
    /\ resp.sid = s
    /\ IsJson(resp.body)
    /\ resp.body.doc.status = "done"
    /\ \A f \in FinalFields : resp.body.doc[f] = "result"


\* C3: every exit path of a session that acquired the gate releases it (create
\* rejected, worker.run resolved or rejected, aborted, state writes of the
\* success or error path failing), and, worker.run always settling, a held
\* gate always becomes free again, so that a later submission can be accepted.
C3_GateReleased ==
  /\ [][\A s \in Ids :
          (s \in Holders /\ phase' = "listening" /\ ~(postPc'[s] = "creating")
             /\ worker'[s] \notin {"started", "progress", "gather", "final", "error"})
            => currentSessionId' = Null /\ currentWorkspace' = Null
       ]_vars
  /\ []<>GateFree

\* C3 witness: both the final write and the write of the catch block failed,
\* the state on disk is still running, and the gate is free again.
C3_Witness ==
  \E s \in Ids :
    /\ worker[s] = "settled"
    /\ NoAbortRequest(s)
    /\ IsJson(stateFile[s])
    /\ Status(s) = "running"
    /\ stateFile[s].doc.turns_completed = 1
    /\ GateFree

\* C11 (as claimed): in every stored state error_summary is non-null exactly
\* when the status is not done.
C11_SummaryIffNotDone ==
  \A s \in Ids :
    IsJson(stateFile[s]) =>
      (stateFile[s].doc.error_summary # "null" <=> Status(s) # "done")

\* C11 (amended): in every stored state error_summary is null when the status
\* is running or done and non-null when it is failed or aborted.
C11_SummaryByStatus ==
  \A s \in Ids :
    IsJson(stateFile[s]) =>
      (stateFile[s].doc.error_summary # "null" <=> Status(s) \in {"failed", "aborted"})

\* C11 witness: one session is stored as done with a null summary, the other
\* as failed with the exit-code summary.
C11_Witness ==
  \E s, u \in Ids :
    /\ IsJson(stateFile[s]) /\ IsJson(stateFile[u])
    /\ Status(s) = "done" /\ stateFile[s].doc.error_summary = "null"
    /\ Status(u) = "failed"
    /\ stateFile[u].doc.error_summary = "Worker exited with code 1"

MaxCalls == 4

GateCall(op, w, s, ret) == [op |-> op, w |-> w, s |-> s, ret |-> ret]

\* concurrencyGate.ts 9-16
Acquire(w, s) ==
  /\ Len(calls) < MaxCalls
  /\ IF GateFree
       THEN /\ currentSessionId' = s
            /\ currentWorkspace' = w
            /\ calls' = Append(calls, GateCall("acquire", w, s, "true"))
       ELSE /\ UNCHANGED <<currentSessionId, currentWorkspace>>
            /\ calls' = Append(calls, GateCall("acquire", w, s, "false"))
  /\ UNCHANGED <<phase, recIdx, abortControllers, aborted, locks, ops, taskFile,
                 stateFile, tmpFile, nextId, postPc, sanitized, worker, abortPc,
                 resp, abort200, left, run, req, io>>

\* concurrencyGate.ts 18-23
Release(w, s) ==
  /\ Len(calls) < MaxCalls
  /\ currentSessionId' = ReleasedSession(w, s)
  /\ currentWorkspace' = ReleasedWorkspace(w, s)
  /\ calls' = Append(calls, GateCall("release", w, s, "void"))
  /\ UNCHANGED <<phase, recIdx, abortControllers, aborted, locks, ops, taskFile,
                 stateFile, tmpFile, nextId, postPc, sanitized, worker, abortPc,
                 resp, abort200, left, run, req, io>>

GateNext ==
  \/ \E w \in Workspaces, s \in Ids : Acquire(w, s)
  \/ \E w \in Workspaces, s \in Ids : Release(w, s)

GateSpec == Init /\ [][GateNext]_vars

\* the call made by the step, if the step is a call
LastCall == calls'[Len(calls')]

\* C18: release(w, s) empties the gate when the stored pair equals (w, s) and
\* otherwise (other session, other workspace, empty gate) changes nothing.
C18_ReleaseOnlyByOwner ==
  [][(Len(calls') = Len(calls) + 1 /\ LastCall.op = "release") =>
       IF currentWorkspace = LastCall.w /\ currentSessionId = LastCall.s
         THEN currentSessionId' = Null /\ currentWorkspace' = Null
         ELSE currentSessionId' = currentSessionId /\ currentWorkspace' = currentWorkspace
    ]_vars

\* C18 witness: session 1 released, session 2 acquired on the same workspace,
\* then the release of session 1 came again: session 2 still holds the gate.
C18_Witness ==
  /\ calls = << GateCall("acquire", 1, 1, "true"), GateCall("release", 1, 1, "void"),
                GateCall("acquire", 1, 2, "true"), GateCall("release", 1, 1, "void") >>
  /\ currentSessionId = 2
  /\ currentWorkspace = 1

\* ================================================= one worker run
\* ClaudeCodeWorker.run and spawnWithTimeout followed step by step for one
\* accepted session, with the finalization of runWorker and a client abort.
\* State writes are single steps here; run.state is the stored document.
TimeoutTicks == 2
GraceTicks == 1
MaxTick == TimeoutTicks + GraceTicks + 1

\* stderr of a spawn, as the two tests of the supervisor see it
Stderrs == [unknownFlag : BOOLEAN, namesTools : BOOLEAN]

NoStderr == [unknownFlag |-> FALSE, namesTools |-> FALSE]

isUnknownFlagError(stderr) == stderr.unknownFlag

\* variant: every unknown-flag error is blamed on --allowedTools
AnyFlagRejected(stderr) == TRUE

isAllowedToolsRejected(stderr) == stderr.namesTools

CloseCodes == {0, 1, NoExitCode}

Args(tools, format) == [tools |-> tools, format |-> format]

SpawnResult(code, timedOut, stderr) ==
  [exitCode |-> code, timedOut |-> timedOut, stderr |-> stderr]

Range(seq) == {seq[i] : i \in 1..Len(seq)}

\* JSON.stringify of the fallback events, by their attempted flags
EventsJson(ev) ==
  IF ev = <<>> THEN "[]"
  ELSE IF ev = <<"--allowedTools">> THEN "[--allowedTools]"
  ELSE IF ev = <<"--output-format">> THEN "[--output-format]"
  ELSE "[--allowedTools,--output-format]"

\* runWorker is called for the accepted session (id 1)
StartRun(tools) ==
  [pc |-> "start", tools |-> tools, stage |-> 0, args |-> Args(FALSE, "none"),
   child |-> "none", pid |-> FALSE, t |-> 0, timer |-> "none", grace |-> "none",
   timedOut |-> FALSE, settled |-> FALSE, signals |-> <<>>, termAt |-> 0,
   spawns |-> <<>>, events |-> <<>>, aborted |-> FALSE, abortWrite |-> "none",
   state |-> InitialState(1), storeFailed |-> FALSE, logs |-> <<>>]

\* exec.ts 24-52: spawn(command, args, detached) and the timer armed
Spawned(r, stage, args, pid) ==
  [r EXCEPT !.pc = "child", !.stage = stage, !.args = args, !.child = "running",
            !.pid = pid, !.t = 0, !.timer = "armed", !.grace = "none",
            !.timedOut = FALSE, !.settled = FALSE, !.signals = <<>>, !.termAt = 0]

\* variant: the catch block writes nothing
RejectedSilently(r) == [r EXCEPT !.pc = "end"]

\* app.ts 359-365: worker.run rejected, or the final updateState did: unless
\* the signal is set the catch block calls updateState
Rejected(r) ==
  IF r.aborted THEN [r EXCEPT !.pc = "end"] ELSE [r EXCEPT !.pc = "catch"]

\* app.ts 77-81: allowed_tools of the accepted task is empty or not
Accept(tools) ==
  /\ run = NoRun
  /\ run' = StartRun(tools)
  /\ UNCHANGED <<engine, calls, req, io>>

\* claudeCode.ts 79-104: directories, request.json, first spawn with all flags
Prepare(pid) ==
  /\ run.pc = "start"
  /\ run' = Spawned(run, 1, Args(run.tools, "json"), pid)
  /\ UNCHANGED <<engine, calls, req, io>>

\* claudeCode.ts 79-97: mkdir or the write of request.json throws
PrepareFails ==
  /\ run.pc = "start"
  /\ run' = Rejected(run)
  /\ UNCHANGED <<engine, calls, req, io>>

\* time passes while the child runs
Tick ==
  /\ run.pc = "child"
  /\ run.child = "running"
  /\ run.pid
  /\ run.t < MaxTick
  /\ run' = [run EXCEPT !.t = @ + 1]
  /\ UNCHANGED <<engine, calls, req, io>>

\* exec.ts 48-52 and 77-91: the timeout fires: SIGTERM to the group, grace armed
TimerFire ==
  /\ run.pc # "none"
  /\ run.timer = "armed"
  /\ run.t >= TimeoutTicks
  /\ run' = IF run.settled THEN [run EXCEPT !.timer = "done"]
            ELSE IF ~run.pid THEN [run EXCEPT !.timer = "done", !.timedOut = TRUE]
            ELSE [run EXCEPT !.timer = "done", !.timedOut = TRUE,
                             !.signals = Append(@, [sig |-> "SIGTERM", at |-> run.t]),
                             !.grace = "armed", !.termAt = run.t]
  /\ UNCHANGED <<engine, calls, req, io>>

\* exec.ts 91-101: the grace period is over: SIGKILL to the group
GraceFire ==
  /\ run.pc # "none"
  /\ run.grace = "armed"
  /\ run.t >= run.termAt + GraceTicks
  /\ run' = [run EXCEPT !.grace = "done",
                        !.signals = Append(@, [sig |-> "SIGKILL", at |-> run.t])]
  /\ UNCHANGED <<engine, calls, req, io>>

\* variant: the close event leaves the grace timer armed
GraceKept(g) == g

\* exec.ts 103: child.on('close', () => clearTimeout(graceTimeout))
GraceAfterClose(g) == IF g = "armed" THEN "cleared" ELSE g

\* claudeCode.ts 123-138 (and 140-145): an unknown-flag failure is retried in
\* plain --print mode, with the tool arguments unless they were dropped
CheckFormat(r, res, pid) ==
  IF res.exitCode # 0 /\ isUnknownFlagError(res.stderr)
    THEN Spawned([r EXCEPT !.events = Append(@, "--output-format")], 3,
                 Args(r.tools /\ "--allowedTools" \notin Range(r.events), "print"), pid)
    ELSE [r EXCEPT !.pc = "logs"]

\* variant: the --print attempt is tested for an unknown flag like the others
AfterSpawnRetries(r, res, pid) ==
  IF r.stage = 1 /\ r.tools /\ res.exitCode # 0 /\ isUnknownFlagError(res.stderr)
     /\ isAllowedToolsRejected(res.stderr)
    THEN Spawned([r EXCEPT !.events = Append(@, "--allowedTools")], 2,
                 Args(FALSE, "json"), pid)
    ELSE CheckFormat(r, res, pid)

\* claudeCode.ts 106-138: what run does with the result of a spawn
AfterSpawn(r, res, pid) ==
  IF r.stage = 1
    THEN IF /\ r.tools
            /\ res.exitCode # 0
            /\ isUnknownFlagError(res.stderr)
            /\ isAllowedToolsRejected(res.stderr)
           THEN Spawned([r EXCEPT !.events = Append(@, "--allowedTools")], 2,
                        Args(FALSE, "json"), pid)
           ELSE CheckFormat(r, res, pid)
  ELSE IF r.stage = 2 THEN CheckFormat(r, res, pid)
  ELSE [r EXCEPT !.pc = "logs"]

\* the spawn is over: its arguments and result join the history
Completed(r, res) ==
  [r EXCEPT !.spawns = Append(@, [args |-> r.args, res |-> res])]

\* exec.ts 54-63: close: settled, the timeout cleared, the promise resolved
ChildClose(code, stderr, pid) ==
  /\ run.pc = "child"
  /\ run.child = "running"
  /\ run.pid
  /\ LET res == SpawnResult(code, run.timedOut, stderr)
         closed == [run EXCEPT !.child = "closed", !.settled = TRUE,
                               !.timer = IF @ = "armed" THEN "cleared" ELSE @,
                               !.grace = GraceAfterClose(@)]
     IN run' = AfterSpawn(Completed(closed, res), res, pid)
  /\ UNCHANGED <<engine, calls, req, io>>

\* exec.ts 65-73: the child could not be spawned: error, the timeout cleared,
\* the promise resolved with exitCode null
SpawnError(pid) ==
  /\ run.pc = "child"
  /\ run.child = "running"
  /\ ~run.pid
  /\ LET res == SpawnResult(NoExitCode, FALSE, NoStderr)
         failed == [run EXCEPT !.child = "failed",
                               !.timer = IF @ = "armed" THEN "cleared" ELSE @]
     IN run' = AfterSpawn(Completed(failed, res), res, pid)
  /\ UNCHANGED <<engine, calls, req, io>>

\* the result of the last spawn
LastSpawn(r) == r.spawns[Len(r.spawns)].res

\* claudeCode.ts 140-167: request.json rewritten, then stdout.log and
\* stderr.log of turn 0001 written from spawnResult, the result of the last
\* spawn; logs lists the spawns whose output the turn logs hold
WriteLogs ==
  /\ run.pc = "logs"
  /\ run' = [run EXCEPT !.pc = "progress",
                        !.logs = <<[spawn |-> Len(run.spawns),
                                    stderr |-> LastSpawn(run).stderr]>>]
  /\ UNCHANGED <<engine, calls, req, io>>

LogsFail ==
  /\ run.pc = "logs"
  /\ run' = Rejected(run)
  /\ UNCHANGED <<engine, calls, req, io>>

\* claudeCode.ts 178 and app.ts 335-338: onProgress
Progress ==
  /\ run.pc = "progress"
  /\ run' = IF run.aborted THEN [run EXCEPT !.pc = "gather"]
            ELSE [run EXCEPT !.pc = "gather", !.state = Merge(@, ProgressPatch)]
  /\ UNCHANGED <<engine, calls, req, io>>

\* app.ts 337: the updateState of onProgress rejects
ProgressFails ==
  /\ run.pc = "progress"
  /\ ~run.aborted
  /\ run' = Rejected(run)
  /\ UNCHANGED <<engine, calls, req, io>>

\* claudeCode.ts 181-209 and app.ts 341-358: the result is returned; unless
\* the signal is set runWorker calls the final updateState
Gather ==
  /\ run.pc = "gather"
  /\ run' = IF run.aborted THEN [run EXCEPT !.pc = "end"] ELSE [run EXCEPT !.pc = "final"]
  /\ UNCHANGED <<engine, calls, req, io>>

\* claudeCode.ts 181-196: the artifact index or a write to out/ throws
GatherFails ==
  /\ run.pc = "gather"
  /\ run' = Rejected(run)
  /\ UNCHANGED <<engine, calls, req, io>>

WorkerResult(r) ==
  [exit_code |-> LastSpawn(r).exitCode, timed_out |-> LastSpawn(r).timedOut,
   fallback_events |-> EventsJson(r.events)]

\* app.ts 350-358 and 366-369: the final updateState lands, then finally
FinalWrite ==
  /\ run.pc = "final"
  /\ run' = [run EXCEPT !.pc = "end", !.state = Merge(@, FinalPatch(WorkerResult(run)))]
  /\ UNCHANGED <<engine, calls, req, io>>

\* app.ts 350-365: the final updateState rejects
FinalWriteFails ==
  /\ run.pc = "final"
  /\ run' = Rejected(run)
  /\ UNCHANGED <<engine, calls, req, io>>

\* app.ts 361-369: the updateState of the catch block lands, then finally
CatchWrite ==
  /\ run.pc = "catch"
  /\ run' = [run EXCEPT !.pc = "end", !.state = Merge(@, ErrorPatch)]
  /\ UNCHANGED <<engine, calls, req, io>>

\* app.ts 361-369: the updateState of the catch block rejects; finally runs
CatchWriteFails ==
  /\ run.pc = "catch"
  /\ run' = [run EXCEPT !.pc = "end", !.storeFailed = TRUE]
  /\ UNCHANGED <<engine, calls, req, io>>

\* app.ts 101-122: a client abort of the running session: the controller, if
\* still registered, is signalled and updateState is called
ClientAbort ==
  /\ run.pc # "none"
  /\ run.state.status = "running"
  /\ run.abortWrite = "none"
  /\ run' = [run EXCEPT !.aborted = (run.pc # "end"), !.abortWrite = "pending"]
  /\ UNCHANGED <<engine, calls, req, io>>

\* app.ts 119-124: the abort's updateState lands, after any update of the
\* supervisor that was called before it
AbortLands ==
  /\ run.pc # "none"
  /\ run.abortWrite = "pending"
  /\ run.pc \notin {"final", "catch"}
  /\ run' = [run EXCEPT !.abortWrite = "done", !.state = Merge(@, AbortPatch)]
  /\ UNCHANGED <<engine, calls, req, io>>

\* steps that happen by themselves once they can: every child closes, pending
\* I/O completes, promises resume
RunInternal ==
  \/ \E pid \in BOOLEAN : Prepare(pid)
  \/ \E code \in CloseCodes, stderr \in Stderrs, pid \in BOOLEAN : ChildClose(code, stderr, pid)
  \/ \E pid \in BOOLEAN : SpawnError(pid)
  \/ WriteLogs
  \/ Progress
  \/ Gather
  \/ FinalWrite
  \/ CatchWrite
  \/ AbortLands

RunNext ==
  \/ \E tools \in BOOLEAN : Accept(tools)
  \/ RunInternal
  \/ PrepareFails
  \/ Tick
  \/ TimerFire
  \/ GraceFire
  \/ LogsFail
  \/ ProgressFails
  \/ GatherFails
  \/ FinalWriteFails
  \/ CatchWriteFails
  \/ ClientAbort

RunSpec == Init /\ [][RunNext]_vars

FairRunSpec == RunSpec /\ WF_vars(RunInternal)

\* ------------------------------------------------------------------------
\* C13: the timeout protocol of a spawn. The signals sent to the group are
\* nothing, SIGTERM, or SIGTERM then SIGKILL: SIGTERM not before the timeout,
\* SIGKILL not before the grace period after SIGTERM has elapsed; once the
\* timer has fired on a spawned child SIGTERM has been sent; a child whose
\* close cleared the timer has received no signal; and no step sends a signal
\* unless the child is still running (its close event has not happened).
SignalsInOrder ==
  /\ Len(run.signals) <= 2
  /\ Len(run.signals) >= 1 =>
       /\ run.signals[1].sig = "SIGTERM"
       /\ run.signals[1].at >= TimeoutTicks
       /\ run.timedOut
  /\ Len(run.signals) = 2 =>
       /\ run.signals[2].sig = "SIGKILL"
       /\ run.signals[2].at >= run.signals[1].at + GraceTicks

C13_TimeoutProtocol ==
  [][ /\ run.pc # "none" => SignalsInOrder
      /\ (run.pc # "none" /\ run.timer = "done" /\ run.pid) => Len(run.signals) >= 1
      /\ (run.pc # "none" /\ run.timer = "cleared") => run.signals = <<>>
      /\ (run.pc # "none" /\ run'.signals # run.signals /\ run'.signals # <<>>) =>
           /\ run.child = "running"
           /\ run'.child = "running" ]_vars

\* a child was sent SIGTERM at the timeout and SIGKILL after the grace period,
\* and then closed
C13_Witness ==
  /\ run.pc # "none"
  /\ run.child = "closed"
  /\ Len(run.signals) = 2
  /\ run.signals[1] = [sig |-> "SIGTERM", at |-> TimeoutTicks]
  /\ run.signals[2] = [sig |-> "SIGKILL", at |-> TimeoutTicks + GraceTicks]

\* ------------------------------------------------------------------------
\* C14: for a task with a non-empty allowed-tools list, every spawn made
\* without --allowedTools (finished or running) comes after a spawn that
\* exited non-zero with stderr matching the unknown-flag pattern and naming
\* the allowed-tools flag, and after the fallback event for --allowedTools
\* was recorded; the --print retry made while no such event is recorded
\* carries the tool arguments.
ToolsRejectedBy(sp) ==
  /\ sp.args.tools
  /\ sp.res.exitCode # 0
  /\ sp.res.stderr.unknownFlag
  /\ sp.res.stderr.namesTools

\* arguments of every spawn made so far, the running one included
SpawnArgs ==
  [i \in 1..(Len(run.spawns) + (IF run.pc = "child" THEN 1 ELSE 0)) |->
     IF i <= Len(run.spawns) THEN run.spawns[i].args ELSE run.args]

C14_ToolsKeptUnlessRejected ==
  (run.pc # "none" /\ run.tools) =>
    \A i \in DOMAIN SpawnArgs :
      /\ ~SpawnArgs[i].tools =>
           /\ \E j \in 1..(i - 1) : j <= Len(run.spawns) /\ ToolsRejectedBy(run.spawns[j])
           /\ "--allowedTools" \in Range(run.events)
      /\ (SpawnArgs[i].format = "print" /\ "--allowedTools" \notin Range(run.events)) =>
           SpawnArgs[i].tools

\* only --output-format was rejected: the --print retry runs with the tools
C14_Witness ==
  /\ run.pc = "child"
  /\ run.tools
  /\ run.args = Args(TRUE, "print")
  /\ run.events = <<"--output-format">>
  /\ ~run.spawns[1].res.stderr.namesTools

\* ------------------------------------------------------------------------
\* C15: when the final state update of a run lands (the session was not
\* aborted) the status written is failed if the last spawn timed out, also
\* when it exited with code 0, otherwise done if it exited with code 0,
\* otherwise failed; error_summary is "Worker timed out", "Worker exited
\* with code N" or null respectively.
ExpectedStatus(res) ==
  IF res.timedOut THEN "failed" ELSE IF res.exitCode = 0 THEN "done" ELSE "failed"

ExpectedSummary(res) ==
  IF res.timedOut THEN "Worker timed out"
  ELSE IF res.exitCode = 0 THEN "null"
  ELSE IF res.exitCode = 1 THEN "Worker exited with code 1"
  ELSE "Worker exited with code null"

\* C15 as stated, for every run that was not aborted and whose state is
\* terminal: the status and error_summary are those of the last spawn
C15_AsClaimed ==
  (/\ run.pc = "end"
   /\ ~run.aborted
   /\ run.abortWrite = "none"
   /\ Len(run.spawns) >= 1
   /\ run.state.status \in Terminal) =>
     /\ run.state.status = ExpectedStatus(LastSpawn(run))
     /\ run.state.error_summary = ExpectedSummary(LastSpawn(run))

\* C15, amended: the rule applies when worker.run returned its result and
\* the final state update is the one that lands
C15_StatusFromLastSpawn ==
  [][ (run.pc = "final" /\ run'.pc = "end" /\ ~run.aborted) =>
        /\ run'.state.status = ExpectedStatus(LastSpawn(run))
        /\ run'.state.error_summary = ExpectedSummary(LastSpawn(run)) ]_vars

\* the last spawn timed out and still closed with exit code 0: failed
C15_Witness ==
  /\ run.pc = "end"
  /\ ~run.aborted
  /\ run.abortWrite = "none"
  /\ Len(run.spawns) >= 1
  /\ LastSpawn(run).timedOut
  /\ LastSpawn(run).exitCode = 0
  /\ run.state.status = "failed"
  /\ run.state.error_summary = "Worker timed out"

\* ------------------------------------------------------------------------
\* C16: once the agent was spawned again without --allowedTools, the stored
\* state, when terminal, lists a fallback event for --allowedTools.
ToolsDropped ==
  /\ run.pc # "none"
  /\ run.tools
  /\ \E i \in DOMAIN SpawnArgs : ~SpawnArgs[i].tools

C16_DropIsPersisted ==
  (ToolsDropped /\ run.state.status \in Terminal) =>
    run.state.fallback_events \in {"[--allowedTools]", "[--allowedTools,--output-format]"}

\* the final update of a run that dropped the tools did record the event
C16_Recorded ==
  /\ ToolsDropped
  /\ run.pc = "end"
  /\ run.state.status = "done"
  /\ run.state.fallback_events = "[--allowedTools]"

\* ------------------------------------------------------------------------
\* C12 as stated: every accepted session eventually has a terminal stored
\* status, given that every spawned child eventually closes.
Accepted == run.pc # "none"

RunTerminal == run.pc # "none" /\ run.state.status \in Terminal

MAX_GOAL_BYTES == 2

\* config.bridgeToken, and the scheme prefix 'Bearer ' as two symbols
bridgeToken == <<"t", "k">>

Bearer == <<"Bearer", " ">>

NoHeader == [present |-> FALSE]

Header(v) == [present |-> TRUE, value |-> v]

\* Authorization headers: absent, empty, other schemes, no token, a shorter,
\* a longer and a different token of the same length, and the right one
Headers ==
  {NoHeader, Header(<<>>), Header(<<"Basic", " ">> \o bridgeToken),
   Header(<<"bearer", " ">> \o bridgeToken), Header(Bearer),
   Header(Bearer \o <<"t">>), Header(Bearer \o <<"t", "x">>),
   Header(Bearer \o bridgeToken \o <<"k">>), Header(Bearer \o bridgeToken)}

startsWith(str, prefix) ==
  Len(str) >= Len(prefix) /\ SubSeq(str, 1, Len(prefix)) = prefix

slice(str, n) == SubSeq(str, n + 1, Len(str))

\* pathGuard.ts 93-124: the status the auth middleware answers, Null for next()
AuthStatus(h) ==
  IF ~h.present \/ h.value = <<>> THEN 401
  ELSE IF ~startsWith(h.value, Bearer) THEN 401
  ELSE IF slice(h.value, Len(Bearer)) = <<>> THEN 401
  ELSE IF ~(/\ Len(slice(h.value, Len(Bearer))) = Len(bridgeToken)
            /\ slice(h.value, Len(Bearer)) = bridgeToken) THEN 401
  ELSE Null

\* String.prototype.trim on a sequence of characters
RECURSIVE trimStart(_)
trimStart(str) ==
  IF str # <<>> /\ Head(str) = " " THEN trimStart(Tail(str)) ELSE str

RECURSIVE trimEnd(_)
trimEnd(str) ==
  IF str # <<>> /\ str[Len(str)] = " " THEN trimEnd(SubSeq(str, 1, Len(str) - 1)) ELSE str

trim(str) == trimEnd(trimStart(str))

\* a field of the body: absent (or not a string), or a string
Absent == [present |-> FALSE]

Str(t) == [present |-> TRUE, text |-> t]

Fill(n) == [i \in 1..n |-> "g"]

\* goals: absent, empty, blank, within the limit, at the limit, over the
\* limit, and over the limit only by its surrounding blanks
Goals ==
  {Absent, Str(<<>>), Str(<<" ">>), Str(<<"g">>), Str(Fill(MAX_GOAL_BYTES)),
   Str(Fill(MAX_GOAL_BYTES + 1)), Str(<<" ">> \o Fill(MAX_GOAL_BYTES)),
   Str(<<"g", "!">>)}

\* promptTemplate.ts 18-25: the injection patterns, as one symbol that they
\* match, and MAX_APPEND_BYTES scaled down (2048 in the source)
INJECTION_PATTERNS == {<<"!">>}

MAX_APPEND_BYTES == 2

\* RegExp.test: the pattern occurs somewhere in the text
test(pattern, text) ==
  \E i \in 1..Len(text) :
    /\ i + Len(pattern) - 1 <= Len(text)
    /\ SubSeq(text, i, i + Len(pattern) - 1) = pattern

\* config.promptAppend: empty, harmless, with a blocked pattern, too long
Appends == {<<>>, <<"a">>, <<"a", "!">>, [i \in 1..(MAX_APPEND_BYTES + 1) |-> "a"]}

\* promptTemplate.ts 45-60: buildPrompt throws PromptTemplateError
buildPromptThrows(goal, append) ==
  \/ Len(append) > MAX_APPEND_BYTES
  \/ \E pattern \in INJECTION_PATTERNS : test(pattern, append)
  \/ \E pattern \in INJECTION_PATTERNS : test(pattern, goal)

\* resolved paths are sequences of segments; one allowed root, one deny glob
AllowedRoots == {<<"srv">>}

DenyGlobs == {".git"}

WorkspaceNames == <<"w1", "w2", "w3", "w4">>

WorkspacePath(w) == <<"srv", WorkspaceNames[w]>>

\* the workspace of the sanitized input
WorkspaceOf(p) == CHOOSE w \in Workspaces : WorkspacePath(w) = p

\* workspace_root: absent, blank, outside the roots, denied, or a workspace
Roots ==
  {Absent, Str(<<>>), Str(<<"etc">>), Str(<<"srv", ".git">>)}
    \cup {Str(WorkspacePath(w)) : w \in Workspaces}

NoBody == [kind |-> "none"]

Malformed == [kind |-> "malformed"]

\* bodies: none, one that does not parse, every goal with a good workspace,
\* every workspace_root with a good goal, and an object without either
Bodies ==
  {NoBody, Malformed}
    \cup [kind : {"object"}, goal : Goals, workspace_root : {Str(WorkspacePath(1))}]
    \cup [kind : {"object"}, goal : {Str(<<"g">>)}, workspace_root : Roots]
    \cup [kind : {"object"}, goal : {Absent}, workspace_root : {Absent}]

\* pathGuard.ts 47-51 and policy 67-71
isUnderRoot(resolved, resolvedRoot) ==
  \/ resolved = resolvedRoot
  \/ /\ Len(resolved) > Len(resolvedRoot)
     /\ SubSeq(resolved, 1, Len(resolvedRoot)) = resolvedRoot

\* the field of a parsed body; without a parsed object no field is a string
Field(b, name) == IF b.kind = "object" THEN b[name] ELSE Absent

\* variant: the policy does not limit the size of the goal
validateTaskInputAnySize(input) ==
  (IF ~Field(input, "goal").present \/ trim(Field(input, "goal").text) = <<>>
     THEN {"goal is required"} ELSE {})
  \cup
  (IF \/ ~Field(input, "workspace_root").present
      \/ trim(Field(input, "workspace_root").text) = <<>>
     THEN {"workspace_root is required"}
   ELSE IF ~\E root \in AllowedRoots :
              isUnderRoot(trim(Field(input, "workspace_root").text), root)
     THEN {"workspace_root is not under any allowed root"} ELSE {})

\* policy 51-77: the errors of validateTaskInput
validateTaskInput(input) ==
  (IF ~Field(input, "goal").present \/ trim(Field(input, "goal").text) = <<>>
     THEN {"goal is required"}
   ELSE IF Len(Field(input, "goal").text) > MAX_GOAL_BYTES
     THEN {"goal exceeds 4KB limit"} ELSE {})
  \cup
  (IF \/ ~Field(input, "workspace_root").present
      \/ trim(Field(input, "workspace_root").text) = <<>>
     THEN {"workspace_root is required"}
   ELSE IF ~\E root \in AllowedRoots :
              isUnderRoot(trim(Field(input, "workspace_root").text), root)
     THEN {"workspace_root is not under any allowed root"} ELSE {})

\* minimatch of the path relative to the root against a deny glob **/<glob>,
\* dot: true: the last segment is the name of the glob
minimatch(relative, glob) == relative # <<>> /\ relative[Len(relative)] = glob

\* pathGuard.ts 52-88: validatePath(...).allowed
validatePath(targetPath, contextRoots, denyGlobs) ==
  /\ targetPath # <<>>
  /\ \E root \in contextRoots : isUnderRoot(targetPath, root)
  /\ \A root \in contextRoots : isUnderRoot(targetPath, root) =>
       \A glob \in denyGlobs : ~minimatch(slice(targetPath, Len(root)), glob)

\* everything a request can change: the gate, the store, the sessions
EdgeState ==
  <<phase, recIdx, currentSessionId, currentWorkspace, abortControllers,
    aborted, locks, ops, taskFile, stateFile, tmpFile, nextId, postPc,
    sanitized, worker, abortPc, abort200, left>>

\* the request is answered before any handler runs
Refuse(route, status) ==
  /\ resp' = Response(route, Null, status, NoFile)
  /\ UNCHANGED EdgeState

\* a body that passes the policy and the path guard
GoodBody == [kind |-> "object", goal |-> Str(<<"g">>), workspace_root |-> Str(WorkspacePath(1))]

\* a body that passes the policy and the path guard with a blocked goal
BlockedBody ==
  [kind |-> "object", goal |-> Str(<<"g", "!">>), workspace_root |-> Str(WorkspacePath(1))]

\* requests: POST /v1/tasks with every body under the right token and, for
\* a good and a blocked goal, under every operator append; the session
\* routes with and without the token, and /v1/health under every header
Requests ==
  [route : {"tasks"}, id : {Null}, header : {Header(Bearer \o bridgeToken)},
   body : Bodies, append : {<<>>}]
    \cup [route : {"tasks"}, id : {Null}, header : {Header(Bearer \o bridgeToken)},
          body : {GoodBody, BlockedBody}, append : Appends]
    \cup [route : {"tasks"}, id : {Null},
          header : {NoHeader, Header(Bearer \o <<"t", "x">>)},
          body : {GoodBody, Malformed}, append : {<<>>}]
    \cup [route : {"state", "abort"}, id : Ids,
          header : {NoHeader, Header(Bearer \o bridgeToken)}, body : {NoBody},
          append : {<<>>}]
    \cup [route : {"state", "abort"}, id : Ids, header : {NoHeader}, body : {Malformed},
          append : {<<>>}]
    \cup [route : {"health"}, id : {Null}, header : Headers, body : {NoBody, Malformed},
          append : {<<>>}]

\* sessions accepted while requests are followed one by one
MaxEdgeSessions == 1

\* app.ts 27-59: POST /v1/tasks: Policy, PathGuard, PromptBuilder, then the
\* gate and the store.  buildPrompt is called outside any try block: when it
\* throws the async handler rejects, which the framework answers with 500
\* through its default error handler or, in a version that does not await
\* handlers, does not answer at all.
Tasks(body, append) ==
  IF validateTaskInput(body) # {} THEN Refuse("tasks", 400)
  ELSE IF ~validatePath(trim(body.workspace_root.text), AllowedRoots, DenyGlobs)
    THEN Refuse("tasks", 400)
  ELSE IF buildPromptThrows(trim(body.goal.text), append)
    THEN \E code \in {500, Null} : Refuse("tasks", code)
  ELSE /\ GateFree => nextId <= MaxEdgeSessions
       /\ TasksHandler(WorkspaceOf(trim(body.workspace_root.text)))

\* app.ts 260-265: GET /v1/health
Health ==
  /\ resp' = Response("health", activeSessionId, 200, NoFile)
  /\ UNCHANGED EdgeState

\* app.ts 23-24 and the routes: one request through the middleware stack.
\* express.json() answers a body that does not parse with 400 through the
\* default error handler, and the later middleware is skipped.
Serve(r) ==
  /\ phase = "listening"
  /\ req' = [route |-> r.route, id |-> r.id, header |-> r.header, body |-> r.body,
             append |-> r.append,
             seq |-> IF req.route = "none" THEN 1 ELSE 1 - req.seq]
  /\ IF r.body.kind = "malformed" THEN Refuse(r.route, 400)
     ELSE IF AuthStatus(r.header) # Null THEN Refuse(r.route, AuthStatus(r.header))
     ELSE IF r.route = "tasks" THEN Tasks(r.body, r.append)
     ELSE IF r.route = "state" THEN StateHandler(r.id)
     ELSE IF r.route = "abort" THEN AbortHandler(r.id)
     ELSE Health
  /\ UNCHANGED <<run, calls, io>>

EdgeNext ==
  \/ \E r \in Requests : Serve(r)
  \/ Internal
  \/ \E s \in Ids : WorkerReject(s)
  \/ RecScan
  \/ Listen

EdgeSpec == Init /\ [][EdgeNext]_vars

\* a step that serves a request
Served ==
  /\ req'.route # "none"
  /\ req.route # "none" => req'.seq # req.seq

\* the Authorization header is absent, of another scheme, without a token,
\* or carries a token that is not the bridge token
Unauthenticated(h) ==
  \/ ~h.present
  \/ ~startsWith(h.value, Bearer)
  \/ slice(h.value, Len(Bearer)) = <<>>
  \/ slice(h.value, Len(Bearer)) # bridgeToken

\* ------------------------------------------------------------------------
\* C19: every request without a valid bearer token, on every route, is
\* answered 401 and changes nothing: no session, gate or cancellation flag.
C19_Unauthorized401 ==
  [][ (Served /\ Unauthenticated(req'.header)) =>
        /\ resp'.code = 401
        /\ UNCHANGED EdgeState ]_vars

\* the part of C19 that the code keeps: an unauthenticated request is
\* refused with 401, or 400 for a body that does not parse, and changes nothing
C19_UnauthorizedRefused ==
  [][ (Served /\ Unauthenticated(req'.header)) =>
        /\ resp'.code = IF req'.body.kind = "malformed" THEN 400 ELSE 401
        /\ UNCHANGED EdgeState ]_vars

\* the body of a task request that Policy or PathGuard must reject: goal
\* missing, blank or over the limit, workspace_root missing, outside every
\* allowed root, or matching a deny glob
RejectedInput(b) ==
  \/ b.kind # "object"
  \/ ~b.goal.present
  \/ trim(b.goal.text) = <<>>
  \/ Len(b.goal.text) > MAX_GOAL_BYTES
  \/ ~b.workspace_root.present
  \/ b.workspace_root.text = <<>>
  \/ \A root \in AllowedRoots : ~isUnderRoot(b.workspace_root.text, root)
  \/ \E glob \in DenyGlobs : \E i \in 1..Len(b.workspace_root.text) :
       b.workspace_root.text[i] = glob

PromptRejected(r) ==
  /\ r.route = "tasks"
  /\ ~Unauthenticated(r.header)
  /\ r.body.kind = "object"
  /\ ~RejectedInput(r.body)
  /\ \/ Len(r.append) > MAX_APPEND_BYTES
     \/ \E i \in 1..Len(r.append) : r.append[i] = "!"
     \/ \E i \in 1..Len(r.body.goal.text) : r.body.goal.text[i] = "!"

\* ------------------------------------------------------------------------
\* C21: a POST /v1/tasks whose goal or operator append the PromptBuilder
\* rejects is answered 400, the gate is not acquired and no session is
\* created.
C21_PromptRejected400 ==
  [][ (Served /\ PromptRejected(req')) =>
        /\ resp'.code = 400
        /\ UNCHANGED EdgeState ]_vars

\* the part of C21 that the code keeps: the gate and the store are untouched
C21_PromptRejectedNoSession ==
  [][ (Served /\ PromptRejected(req')) =>
        /\ resp'.code \in {500, Null}
        /\ UNCHANGED EdgeState ]_vars

\* ------------------------------------------------------------------------
\* C22: an abort request that reads a status other than running goes no
\* further: it is answered 409 with the document it read and the step
\* changes neither the stored state nor the cancellation flags.  The abort
\* update is queued, and 200 answered, only by a request that read running.
NotRunning(s) == IsJson(stateFile[s]) /\ stateFile[s].doc.status # "running"

MaxText == 3

Alphabet == {"w", "S", "B", "E", "\n"}

Texts == UNION {[1..n -> Alphabet] : n \in 0..MaxText}

\* stderr.slice(0, 300), scaled down
ReasonLen == 2

\* redaction.ts 50-53: the leftmost BEGIN with a later END, up to the first
\* END after it, is replaced; then the rest of the text is searched
RECURSIVE redactBlocks(_)
redactBlocks(t) ==
  IF t = <<>> THEN <<>>
  ELSE IF Head(t) = "B" /\ \E j \in 2..Len(t) : t[j] = "E"
    THEN LET j == CHOOSE k \in 2..Len(t) : t[k] = "E" /\ \A m \in 2..(k - 1) : t[m] # "E"
         IN <<"P">> \o redactBlocks(SubSeq(t, j + 1, Len(t)))
  ELSE <<Head(t)>> \o redactBlocks(Tail(t))

\* redaction.ts 55-67: every token and key-value match is replaced
redactTokens(t) == [i \in 1..Len(t) |-> IF t[i] = "S" THEN "R" ELSE t[i]]

\* redaction.ts 47-70
redact(t) == redactTokens(redactBlocks(t))

\* String.prototype.split('\n')
RECURSIVE split(_)
split(t) ==
  IF \A i \in 1..Len(t) : t[i] # "\n" THEN <<t>>
  ELSE LET j == CHOOSE k \in 1..Len(t) : t[k] = "\n" /\ \A m \in 1..(k - 1) : t[m] # "\n"
       IN <<SubSeq(t, 1, j - 1)>> \o split(SubSeq(t, j + 1, Len(t)))

\* Array.prototype.join with a separator symbol
RECURSIVE join(_, _)
join(lines, sep) ==
  IF lines = <<>> THEN <<>>
  ELSE IF Len(lines) = 1 THEN lines[1]
  ELSE lines[1] \o <<sep>> \o join(Tail(lines), sep)

\* Array.prototype.filter(l => l.length > 0)
RECURSIVE nonEmpty(_)
nonEmpty(lines) ==
  IF lines = <<>> THEN <<>>
  ELSE IF Head(lines) = <<>> THEN nonEmpty(Tail(lines))
  ELSE <<Head(lines)>> \o nonEmpty(Tail(lines))

\* slice(-n) of an array, slice(0, n) of a string
lastN(lines, n) == SubSeq(lines, IF Len(lines) > n THEN Len(lines) - n + 1 ELSE 1, Len(lines))

firstN(t, n) == SubSeq(t, 1, IF Len(t) > n THEN n ELSE Len(t))

\* app.ts 271-289: the last lines of a log that are not empty
tailLines(log, n) == lastN(nonEmpty(split(log)), n)

\* blockerExtractor.ts 63-67: the descriptions are lines of the text given
blockerLines(t) == nonEmpty(split(t))

NoTextResp == [route |-> "none"]

TextResp(route, strings) == [route |-> route, strings |-> strings]

\* the response body as it is sent: its strings one after the other
Serialize(strings) == join(strings, ",")

\* claudeCode.ts 100-209 and app.ts 350-358: a run is over.  rejected is the
\* stderr of a spawn that a fallback superseded (absent without fallback),
\* out and err are the output of the last spawn.  The logs hold the raw
\* output, the fallback reason is the head of the raw rejected stderr, the
\* blockers come from the redacted output.
RunStored(out, err, rejected) ==
  /\ io = NoIo
  /\ io' = [pc |-> "stored",
            stdoutLog |-> out,
            stderrLog |-> err,
            fallback_events |-> IF rejected.present
                                  THEN <<firstN(rejected.text, ReasonLen)>> ELSE <<>>,
            blockers |-> blockerLines(redact(out \o <<"\n">> \o err)),
            resp |-> NoTextResp]
  /\ UNCHANGED <<engine, run, calls, req>>

\* app.ts 91-98: GET /state answers the stored document as it is
GetStateText ==
  /\ io.pc = "stored"
  /\ io.resp = NoTextResp
  /\ io' = [io EXCEPT !.resp = TextResp("state", io.fallback_events \o io.blockers)]
  /\ UNCHANGED <<engine, run, calls, req>>

\* app.ts 225-258: GET /logtail: the last n lines, each redacted
Logtail(stream, n) ==
  /\ io.pc = "stored"
  /\ io.resp = NoTextResp
  /\ LET lines == tailLines(IF stream = "stdout" THEN io.stdoutLog ELSE io.stderrLog, n)
     IN io' = [io EXCEPT !.resp = TextResp("logtail", [i \in 1..Len(lines) |-> redact(lines[i])])]
  /\ UNCHANGED <<engine, run, calls, req>>

\* app.ts 148-168: GET /excerpt: the lines asked for, cut to max_chars,
\* then redacted
Excerpt(content, lineStart, lineEnd, maxChars) ==
  /\ io.pc = "stored"
  /\ io.resp = NoTextResp
  /\ LET lines == split(content)
         end == IF lineEnd > 0 THEN (IF lineEnd < Len(lines) THEN lineEnd ELSE Len(lines))
                ELSE Len(lines)
         excerpt == join(SubSeq(lines, lineStart, end), "\n")
         cut == IF maxChars > 0 /\ Len(excerpt) > maxChars THEN firstN(excerpt, maxChars)
                ELSE excerpt
     IN io' = [io EXCEPT !.resp = TextResp("excerpt", <<redact(cut)>>)]
  /\ UNCHANGED <<engine, run, calls, req>>

\* the response has been sent
Sent ==
  /\ io.pc = "stored"
  /\ io.resp # NoTextResp
  /\ io' = [io EXCEPT !.resp = NoTextResp]
  /\ UNCHANGED <<engine, run, calls, req>>

\* stderr of a superseded spawn: none, or a text with a secret in its head
\* or behind it
Rejections == {Absent, Str(<<"S">>), Str(<<"w", "w", "S">>)}

\* line_start, line_end and max_chars of an excerpt request
Windows == {<<1, 0, 0>>, <<2, 0, 0>>, <<1, 1, 0>>, <<1, 0, 2>>}

TextNext ==
  \/ \E out \in {<<"w">>, <<"S">>}, err \in Texts, rejected \in Rejections :
       RunStored(out, err, rejected)
  \/ GetStateText
  \/ \E stream \in {"stdout", "stderr"}, n \in 1..2 : Logtail(stream, n)
  \/ \E content \in Texts, win \in Windows : Excerpt(content, win[1], win[2], win[3])
  \/ Sent

TextSpec == Init /\ [][TextNext]_vars

\* ------------------------------------------------------------------------
\* C23: every response of GET /state, /logtail and /excerpt is a fixed point
\* of redact: redact(response) = response.
C23_ResponsesRedacted ==
  (io.pc = "stored" /\ io.resp # NoTextResp) =>
    redact(Serialize(io.resp.strings)) = Serialize(io.resp.strings)

\* the part of C23 that the code keeps: every string of a /logtail or
\* /excerpt response has passed through redact
C23_LinesRedacted ==
  (io.pc = "stored" /\ io.resp # NoTextResp /\ io.resp.route # "state") =>
    \A i \in 1..Len(io.resp.strings) : redact(io.resp.strings[i]) = io.resp.strings[i]

\* C23 for GET /state alone
C23_StateRedacted ==
  (io.pc = "stored" /\ io.resp # NoTextResp /\ io.resp.route = "state") =>
    \A i \in 1..Len(io.resp.strings) : redact(io.resp.strings[i]) = io.resp.strings[i]

\* ------------------------------------------------------------------------
\* C24: once the turn logs of a run are written they hold the output of
\* every agent spawn of the run, the superseded attempts included.
C24_EverySpawnLogged ==
  (run.pc # "none" /\ run.logs # <<>>) =>
    \A i \in 1..Len(run.spawns) :
      \E k \in 1..Len(run.logs) :
        run.logs[k].spawn = i /\ run.logs[k].stderr = run.spawns[i].res.stderr

\* the part of C24 that the code keeps: the logs hold the raw output of the
\* last spawn
C24_LastSpawnLogged ==
  (run.pc # "none" /\ run.logs # <<>>) =>
    \E k \in 1..Len(run.logs) :
      run.logs[k].spawn = Len(run.spawns) /\ run.logs[k].stderr = LastSpawn(run).stderr

\* ------------------------------------------------------------------------
\* The path guard on a file system with symbolic links.  A path string is a
\* sequence of characters, a canonical path a sequence of segments.
sep == "/"

NUL == "0"

\* the file system: directories, regular files and symbolic links (from, to)
\* by their segments.  /r and /o are roots, /r/w and /r/wx workspaces,
\* /r/w/.a/a is the artifacts directory of /r/w
Fs ==
  LET r == <<"r">>
      o == <<"o">>
      w == <<"w">>
      wx == <<"w", "x">>
      f == <<"f">>
      env == <<".", "e">>
      af == <<".", "a">>
      a == <<"a">>
      ax == <<"a", "x">>
  IN [dirs |-> {<<>>, <<r>>, <<o>>, <<r, w>>, <<r, wx>>, <<r, w, af>>,
                <<r, w, af, a>>, <<r, w, af, ax>>, <<r, w, af, a, <<"d">>>>},
      files |-> {<<r, w, f>>, <<r, w, env>>, <<r, wx, f>>, <<o, f>>,
                 <<r, w, af, a, <<"p">>>>, <<r, w, af, ax, <<"q">>>>},
      links |-> {<<<<r, w, <<"l">>>>, <<r, wx>>>>,
                 <<<<r, w, <<"k">>>>, <<r, w, env>>>>,
                 <<<<<<"s">>>>, <<r, w>>>>,
                 <<<<r, w, <<"g">>>>, <<r, <<"n">>>>>>,
                 <<<<r, w, af, a, <<"t">>>>, <<r, w, f>>>>,
                 <<<<r, w, af, a, <<"u">>>>, <<r, w, af, a, <<"p">>>>>>,
                 <<<<r, w, af, a, <<"v">>>>, <<r, w, af, ax, <<"q">>>>>>}]

\* the pieces of str.split(sep) that are not empty
RECURSIVE segments(_)
segments(str) ==
  IF str = <<>> THEN <<>>
  ELSE IF Head(str) = sep THEN segments(Tail(str))
  ELSE LET n == IF \E k \in 1..Len(str) : str[k] = sep
                  THEN (CHOOSE k \in 1..Len(str) :
                          str[k] = sep /\ \A m \in 1..(k - 1) : str[m] # sep) - 1
                  ELSE Len(str)
       IN <<SubSeq(str, 1, n)>> \o segments(SubSeq(str, n + 1, Len(str)))

RECURSIVE flat(_)
flat(segs) == IF segs = <<>> THEN <<>> ELSE <<sep>> \o Head(segs) \o flat(Tail(segs))

\* the absolute path string of a sequence of segments
pathOf(segs) == IF segs = <<>> THEN <<sep>> ELSE flat(segs)

\* path.normalize of an absolute path: "." is dropped, ".." removes a segment
RECURSIVE normalize(_, _)
normalize(done, rest) ==
  IF rest = <<>> THEN done
  ELSE IF Head(rest) = <<".">> THEN normalize(done, Tail(rest))
  ELSE IF Head(rest) = <<".", ".">>
    THEN normalize(IF done = <<>> THEN <<>> ELSE SubSeq(done, 1, Len(done) - 1), Tail(rest))
  ELSE normalize(Append(done, Head(rest)), Tail(rest))

\* path.resolve(from, to), the working directory being the root directory
resolve(from, to) ==
  IF to # <<>> /\ Head(to) = sep THEN normalize(<<>>, segments(to))
  ELSE normalize(<<>>, segments(from) \o segments(to))

\* the target of the link at a path, {} when the path is no link
readlink(p) == {l[2] : l \in {m \in Fs.links : m[1] = p}}

\* fs.realpathSync of normalized segments below the canonical directory cur:
\* the set holding the canonical path, {} when the call throws
RECURSIVE realpathFrom(_, _)
realpathFrom(cur, rest) ==
  IF rest = <<>> THEN {cur}
  ELSE LET next == Append(cur, Head(rest))
           real == IF readlink(next) # {} THEN CHOOSE t \in readlink(next) : TRUE ELSE next
       IN IF real \in Fs.dirs THEN realpathFrom(real, Tail(rest))
          ELSE IF real \in Fs.files /\ Tail(rest) = <<>> THEN {real}
          ELSE {}

realpathSync(segs) == realpathFrom(<<>>, segs)

\* pathGuard.ts 20-36: walk up to the nearest ancestor that resolves and
\* re-append the tail
RECURSIVE walkUp(_, _, _)
walkUp(absPath, current, tail) ==
  IF current = <<>> THEN absPath
  ELSE LET parent == SubSeq(current, 1, Len(current) - 1)
           newTail == <<current[Len(current)]>> \o tail
       IN IF realpathSync(parent) # {}
            THEN (CHOOSE p \in realpathSync(parent) : TRUE) \o newTail
            ELSE walkUp(absPath, parent, newTail)

\* pathGuard.ts 15-38, as a path string
resolveWithAncestors(targetPath) ==
  LET absPath == resolve(<<sep>>, targetPath)
  IN pathOf(IF realpathSync(absPath) # {} THEN CHOOSE p \in realpathSync(absPath) : TRUE
            ELSE walkUp(absPath, absPath, <<>>))

\* pathGuard.ts 40-46
resolveRoot(root) ==
  LET absPath == resolve(<<sep>>, root)
  IN pathOf(IF realpathSync(absPath) # {} THEN CHOOSE p \in realpathSync(absPath) : TRUE
            ELSE absPath)

\* variant: a root is a prefix of the characters of the path
isUnderRootPrefix(resolved, resolvedRoot) ==
  resolved = resolvedRoot \/ startsWith(resolved, resolvedRoot)

\* pathGuard.ts 47-51 on path strings
isUnderRootStr(resolved, resolvedRoot) ==
  \/ resolved = resolvedRoot
  \/ startsWith(resolved, IF resolvedRoot[Len(resolvedRoot)] = sep THEN resolvedRoot
                          ELSE resolvedRoot \o <<sep>>)

\* path.relative(rr, resolved).split(path.sep) of a path under rr
relative(rr, resolved) == segments(slice(resolved, Len(rr)))

\* the deny globs **/.e
FileDenyGlobs == {<<".", "e">>}

\* pathGuard.ts 52-88: the PathGuardResult of validatePath
PathGuardResult(targetPath, contextRoots, denyGlobs) ==
  IF targetPath = <<>> \/ \E i \in 1..Len(targetPath) : targetPath[i] = NUL
    THEN [allowed |-> FALSE, resolved |-> <<>>, reason |-> "invalid"]
  ELSE LET resolved == resolveWithAncestors(targetPath)
       IN IF ~\E root \in contextRoots : isUnderRootStr(resolved, resolveRoot(root))
            THEN [allowed |-> FALSE, resolved |-> resolved, reason |-> "root"]
          ELSE IF \E root \in contextRoots :
                    /\ isUnderRootStr(resolved, resolveRoot(root))
                    /\ \E glob \in denyGlobs :
                         minimatch(relative(resolveRoot(root), resolved), glob)
            THEN [allowed |-> FALSE, resolved |-> resolved, reason |-> "glob"]
          ELSE [allowed |-> TRUE, resolved |-> resolved, reason |-> "none"]

\* the names a request can put into a path
Names ==
  {<<"r">>, <<"o">>, <<"w">>, <<"w", "x">>, <<"f">>, <<"l">>, <<"k">>, <<"g">>,
   <<"s">>, <<"n">>, <<".", "e">>, <<".">>, <<".", ".">>}

MaxDepth == 2

\* the paths of at most n names
Paths(n) == UNION {[1..k -> Names] : k \in 0..n}

\* the target paths: the empty string, a path with a NUL byte, the absolute
\* paths of at most MaxDepth names, and those below /r
Targets ==
  {<<>>, <<sep, "r", sep, "w", sep, NUL>>}
    \cup {pathOf(segs) : segs \in Paths(MaxDepth)}
    \cup {pathOf(<<<<"r">>>> \o segs) : segs \in Paths(MaxDepth)}

\* the context roots of a call: an allowed root, a workspace, two roots, a
\* link to a workspace, a root that does not exist
ContextRootSets ==
  {{pathOf(<<<<"r">>>>)}, {pathOf(<<<<"r">>, <<"w">>>>)},
   {pathOf(<<<<"r">>>>), pathOf(<<<<"o">>>>)}, {pathOf(<<<<"s">>>>)},
   {pathOf(<<<<"r">>, <<"n">>>>)}}

\* the session of /v1/sessions/:id: the workspace_root of its task.json, its
\* status and the names of its artifacts in shared_state.json, the files of
\* its out directory, and the call being answered
NoCall == [op |-> "none"]

\* the workspace_root of a task: a workspace, or a link to it
SessionRoots == {pathOf(<<<<"r">>, <<"w">>>>), pathOf(<<<<"s">>>>)}

\* app.ts 62-75: the session is created for a validated workspace
CreateSession(root) ==
  /\ io.pc = "none"
  /\ io' = [pc |-> "file", root |-> root, status |-> "running", artifacts |-> {},
            out |-> {}, call |-> NoCall]
  /\ UNCHANGED <<engine, run, calls, req>>

\* no call is being answered
Idle == io.pc = "file" /\ io.call = NoCall

\* the response has been sent
Return ==
  /\ io.pc = "file"
  /\ io.call # NoCall
  /\ io' = [io EXCEPT !.call = NoCall]
  /\ UNCHANGED <<engine, run, calls, req>>

\* a call of validatePath
ValidatePath(targetPath, contextRoots) ==
  /\ Idle
  /\ io' = [io EXCEPT !.call =
              [op |-> "guard", targetPath |-> targetPath, contextRoots |-> contextRoots,
               result |-> PathGuardResult(targetPath, contextRoots, FileDenyGlobs)]]
  /\ UNCHANGED <<engine, run, calls, req>>

\* the allowed roots of the configuration
FileAllowedRoots == {pathOf(<<<<"r">>>>), pathOf(<<<<"o">>>>)}

\* variant: the excerpt is guarded by the allowed roots
excerptRootsAllowed(root) == FileAllowedRoots

\* app.ts 142: the context roots of the excerpt guard
excerptRoots(root) == {root}

\* the path parameter of an excerpt: missing, with a NUL byte, relative or
\* absolute with at most MaxDepth names, and a traversal to a sibling's file
FilePaths ==
  {<<>>, <<"f", NUL>>, <<".", ".", sep, "w", "x", sep, "f">>}
    \cup {pathOf(segs) : segs \in Paths(MaxDepth)}
    \cup {Tail(pathOf(segs)) : segs \in Paths(MaxDepth) \ {<<>>}}

\* fsp.readFile of a path: "ok", "ENOENT", or another error code
readFile(file) ==
  IF file \in Fs.files THEN "ok"
  ELSE IF file \in Fs.dirs THEN "EISDIR"
  ELSE IF \E k \in 1..Len(file) : SubSeq(file, 1, k) \in Fs.files THEN "ENOTDIR"
  ELSE "ENOENT"

\* app.ts 128-176: GET /v1/sessions/:id/excerpt of the session; the content
\* sent is the file it was read from
ExcerptFile(filePath) ==
  /\ Idle
  /\ \E thrown \in {500, Null} :
       io' = [io EXCEPT !.call =
         IF filePath = <<>>
           THEN [op |-> "excerpt", path |-> filePath, code |-> 400, content |-> {}]
         ELSE LET resolved == pathOf(resolve(io.root, filePath))
                  pathCheck == PathGuardResult(resolved, excerptRoots(io.root), FileDenyGlobs)
                  file == segments(pathCheck.resolved)
              IN IF ~pathCheck.allowed
                   THEN [op |-> "excerpt", path |-> filePath, code |-> 403, content |-> {}]
                 ELSE IF readFile(file) = "ok"
                   THEN [op |-> "excerpt", path |-> filePath, code |-> 200, content |-> {file}]
                 ELSE IF readFile(file) = "ENOENT"
                   THEN [op |-> "excerpt", path |-> filePath, code |-> 404, content |-> {}]
                 ELSE [op |-> "excerpt", path |-> filePath, code |-> thrown, content |-> {}]]
  /\ UNCHANGED <<engine, run, calls, req>>

\* claudeCode.ts 75: the artifacts directory of a workspace
artifactsDir(workspaceRoot) == workspaceRoot \o <<sep, ".", "a", sep, "a">>

\* claudeCode.ts 77, 190-196: the files worker.run writes into the out
\* directory of the session: patch.diff, summary.md, artifacts.json
OutputSet == {<<"P">>, <<"S">>, <<"J">>}

\* artifacts.ts 17-45: the names of the regular files of the directory that
\* are no links; [] when the directory does not exist
buildArtifactIndex(dir) ==
  IF realpathSync(resolve(<<sep>>, dir)) = {} THEN {}
  ELSE {name \in Names \cup {<<"p">>, <<"d">>, <<"t">>, <<"u">>, <<"v">>} :
          /\ readlink(resolve(<<sep>>, dir) \o <<name>>) = {}
          /\ (CHOOSE q \in realpathSync(resolve(<<sep>>, dir)) : TRUE) \o <<name>> \in Fs.files}

\* the artifacts a finished run recorded: the index of the directory as it
\* is, or of the directory as it was before names were removed or replaced
\* by directories and links
Indexes(dir) ==
  {buildArtifactIndex(dir), {<<"p">>, <<"t">>, <<"d">>}, {<<"u">>, <<"v">>, <<"n">>},
   {<<"P">>}}

\* claudeCode.ts 183-196 and app.ts 335-358: the run ends; the output set is
\* written to the out directory, the artifact index goes into the state
Complete(status) ==
  /\ Idle
  /\ io.status = "running"
  /\ \E index \in Indexes(artifactsDir(io.root)) :
       io' = [io EXCEPT !.status = status, !.artifacts = index, !.out = OutputSet]
  /\ UNCHANGED <<engine, run, calls, req>>

\* sessionStore.ts 169-206: the set holding the real path of the artifact,
\* {} for null
getArtifactPath(artifactName, workspaceRoot) ==
  IF \/ artifactName = <<>>
     \/ artifactName = <<".">>
     \/ artifactName = <<".", ".">>
     \/ \E i \in 1..Len(artifactName) : artifactName[i] \in {sep, "\\"}
    THEN {}
  ELSE LET dir == resolve(<<sep>>, artifactsDir(workspaceRoot))
           realPath == realpathSync(dir \o <<artifactName>>)
           realDir == realpathSync(dir)
       IN IF realPath = {} \/ realDir = {} THEN {}
          ELSE IF ~startsWith(pathOf(CHOOSE q \in realPath : TRUE),
                              pathOf(CHOOSE q \in realDir : TRUE) \o <<sep>>) THEN {}
          ELSE IF ~(CHOOSE q \in realPath : TRUE) \in Fs.files THEN {}
          ELSE realPath

\* the ids of a request: the session, an id of no session, an id that does
\* not match SESSION_ID_PATTERN
RequestIds == {"session", "unknown", "invalid"}

\* the artifact names of a request
ArtifactNames ==
  {<<"p">>, <<"d">>, <<"t">>, <<"u">>, <<"v">>, <<"n">>, <<"P">>, <<".">>, <<".", ".">>,
   <<".", ".", sep, "a", "x", sep, "q">>, <<"d", "\\", "p">>}

\* variant: the allowlist of the state is not consulted
listedAlways(name, artifacts) == TRUE

\* app.ts 200-209: the name is one of state.artifacts
listed(name, artifacts) == name \in artifacts

\* res.sendFile of a path with a segment that starts with a dot: the send
\* library serves it (dotfiles as in its 0.x line) or answers 404 (dotfiles
\* "ignore", the default of its 1.x line)
Dotfiles == {"allow", "ignore"}

\* app.ts 190-222: GET /v1/sessions/:id/artifacts/:name
Download(id, name) ==
  /\ Idle
  /\ \E thrown \in {500, Null}, dotfiles \in Dotfiles :
       io' = [io EXCEPT !.call =
         IF id = "invalid"
           THEN [op |-> "artifact", id |-> id, name |-> name, code |-> thrown, file |-> {}]
         ELSE IF id = "unknown"
           THEN [op |-> "artifact", id |-> id, name |-> name, code |-> 404, file |-> {}]
         ELSE IF ~listed(name, io.artifacts)
           THEN [op |-> "artifact", id |-> id, name |-> name, code |-> 404, file |-> {}]
         ELSE IF getArtifactPath(name, io.root) = {}
           THEN [op |-> "artifact", id |-> id, name |-> name, code |-> 404, file |-> {}]
         ELSE IF dotfiles = "ignore"
           THEN [op |-> "artifact", id |-> id, name |-> name, code |-> 404, file |-> {}]
         ELSE [op |-> "artifact", id |-> id, name |-> name, code |-> 200,
               file |-> getArtifactPath(name, io.root)]]
  /\ UNCHANGED <<engine, run, calls, req>>

FileNext ==
  \/ \E root \in SessionRoots : CreateSession(root)
  \/ Return
  \/ \E targetPath \in Targets, contextRoots \in ContextRootSets :
       ValidatePath(targetPath, contextRoots)
  \/ \E filePath \in FilePaths : ExcerptFile(filePath)
  \/ \E status \in {"done", "failed"} : Complete(status)
  \/ \E id \in RequestIds, name \in ArtifactNames : Download(id, name)

FileSpec == Init /\ [][FileNext]_vars

\* the call of validatePath that was answered last
Guarded == io.pc = "file" /\ io.call.op = "guard"

\* the canonical target: the links of the longest prefix that exists
\* resolved, the rest re-appended
Canonical(targetPath) ==
  LET abs == resolve(<<sep>>, targetPath)
      k == CHOOSE j \in 0..Len(abs) :
             /\ realpathSync(SubSeq(abs, 1, j)) # {}
             /\ \A m \in (j + 1)..Len(abs) : realpathSync(SubSeq(abs, 1, m)) = {}
  IN (CHOOSE p \in realpathSync(SubSeq(abs, 1, k)) : TRUE) \o SubSeq(abs, k + 1, Len(abs))

\* the canonical segments of a context root
CanonicalRoot(root) == segments(resolveRoot(root))

\* the canonical target equals the root or extends it by whole segments,
\* and the rest matches no deny glob
AllowedUnder(targetPath, root) ==
  LET c == Canonical(targetPath)
      rr == CanonicalRoot(root)
  IN /\ Len(c) >= Len(rr)
     /\ SubSeq(c, 1, Len(rr)) = rr
     /\ \A glob \in FileDenyGlobs : ~minimatch(SubSeq(c, Len(rr) + 1, Len(c)), glob)

\* C28: validatePath allows a target only if its canonical path equals a
\* canonical context root or extends it by whole segments and its path
\* relative to the root matches no deny glob; the result carries that
\* canonical path; an empty path and a path with a NUL byte are rejected.
C28_AllowedOnlyUnderRoot ==
  Guarded =>
    /\ (io.call.targetPath = <<>> \/ \E i \in 1..Len(io.call.targetPath) : io.call.targetPath[i] = NUL)
         => ~io.call.result.allowed
    /\ io.call.result.allowed =>
         /\ \E root \in io.call.contextRoots : AllowedUnder(io.call.targetPath, root)
         /\ io.call.result.resolved = pathOf(Canonical(io.call.targetPath))

\* a target through a link with a suffix that does not exist is allowed
C28_Witness ==
  /\ Guarded
  /\ io.call.result.allowed
  /\ io.call.targetPath = pathOf(<<<<"s">>, <<"n">>>>)
  /\ io.call.result.resolved = pathOf(<<<<"r">>, <<"w">>, <<"n">>>>)

\* the sibling /r/wx of the root /r/w is refused
C28_SiblingRefused ==
  (/\ Guarded
   /\ io.call.contextRoots = {pathOf(<<<<"r">>, <<"w">>>>)}
   /\ io.call.targetPath = pathOf(<<<<"r">>, <<"w", "x">>, <<"f">>>>))
    => ~io.call.result.allowed /\ io.call.result.reason = "root"

\* ------------------------------------------------------------------------
\* the excerpt that was answered last
Excerpted == io.pc = "file" /\ io.call.op = "excerpt"

\* the path the excerpt handler resolves against the workspace of the session
ExcerptTarget == pathOf(resolve(io.root, io.call.path))

\* C27: an excerpt carries content only when the canonical path lies under
\* the workspace root of the session and matches no deny glob, and the
\* content is that of the canonical file; a path that is not (another root,
\* a sibling workspace, a traversal, a link leaving the workspace, a deny
\* glob) is answered 403 without content.
C27_ExcerptConfined ==
  Excerpted =>
    /\ io.call.content # {} =>
         /\ AllowedUnder(ExcerptTarget, io.root)
         /\ io.call.content = {Canonical(ExcerptTarget)}
    /\ (io.call.path # <<>> /\ ~AllowedUnder(ExcerptTarget, io.root)) =>
         io.call.code = 403 /\ io.call.content = {}

\* the file of the sibling workspace behind the link l is refused
C27_Witness ==
  /\ Excerpted
  /\ io.call.path = <<"l", sep, "f">>
  /\ io.call.code = 403

\* a file of the workspace is served, the workspace being given by a link
C27_Served ==
  /\ Excerpted
  /\ io.root = pathOf(<<<<"s">>>>)
  /\ io.call.code = 200
  /\ io.call.content = {<<<<"r">>, <<"w">>, <<"f">>>>}

\* ------------------------------------------------------------------------
\* the download that was answered last
Downloaded == io.pc = "file" /\ io.call.op = "artifact"

\* the canonical artifacts directory of the session
ArtifactsRoot == Canonical(artifactsDir(io.root))

\* the name is listed in the state, has no separator and is no dot segment,
\* and resolves to a regular file under the artifacts directory
Servable(name) ==
  /\ name \in io.artifacts
  /\ \A i \in 1..Len(name) : name[i] \notin {sep, "\\"}
  /\ name \notin {<<".">>, <<".", ".">>}
  /\ LET c == Canonical(artifactsDir(io.root) \o <<sep>> \o name)
     IN /\ c \in Fs.files
        /\ Len(c) > Len(ArtifactsRoot)
        /\ SubSeq(c, 1, Len(ArtifactsRoot)) = ArtifactsRoot

\* C25: a download sends a file only if the name is listed in the state of
\* the session, has no separator and is no dot segment, and resolves to a
\* regular file under the artifacts directory; every other download is
\* answered 404 without content.
C25_DownloadOr404 ==
  Downloaded =>
    /\ io.call.file # {} => io.call.id = "session" /\ Servable(io.call.name)
    /\ io.call.file = {} => io.call.code = 404

\* the part of C25 that holds: a file is sent only for a servable name of the
\* session, and it is the canonical file of that name
C25_ServedOnlyIfListed ==
  Downloaded =>
    (io.call.file # {} =>
       /\ io.call.id = "session"
       /\ Servable(io.call.name)
       /\ io.call.file = {Canonical(artifactsDir(io.root) \o <<sep>> \o io.call.name)})

\* ... and a download of a well-formed id that sends no file is answered 404
C25_WellFormed404 ==
  (Downloaded /\ io.call.id # "invalid" /\ io.call.file = {}) => io.call.code = 404

\* a listed link that stays in the artifacts directory is served
C25_Served ==
  /\ Downloaded
  /\ io.call.name = <<"u">>
  /\ io.call.code = 200

\* C26: when the session is done its state lists the output set, and the
\* download of patch.diff sends the patch.diff of the out directory.
C26_OutputSetListed ==
  (io.pc = "file" /\ io.status = "done") =>
    /\ OutputSet \subseteq io.artifacts
    /\ (Downloaded /\ io.call.id = "session" /\ io.call.name = <<"P">>) =>
         io.call.code = 200

\* the part of C26 that fails on its own: the download of patch.diff
C26_PatchDownloads ==
  (io.pc = "file" /\ io.status = "done" /\ Downloaded /\ io.call.id = "session"
     /\ io.call.name = <<"P">>) => io.call.code = 200

\* what the code does instead: the output set is in the out directory
C26_OutputSetWritten ==
  (io.pc = "file" /\ io.status # "running") => io.out = OutputSet

\* ------------------------------------------------------------------------
\* The session store called directly: two callers of create and updateState
\* for the same session id, a clock, the two files of the session.
Callers == {"a", "b"}

MaxCreates == 2

MaxNow == 1

\* the task record of a caller; the goal tells the callers apart
TaskOf(c) == [session_id |-> 1, goal |-> c]

\* sessionStore.ts 46-60: initialState of create
StoredInitialState(task, now) ==
  [f \in DOMAIN InitialState(1) \cup {"turns_max", "updated_at"} |->
     IF f = "goal" THEN task.goal
     ELSE IF f = "turns_max" THEN "task"
     ELSE IF f = "updated_at" THEN now
     ELSE InitialState(task.session_id)[f]]

\* variant: the spread keeps the identity fields of the patch
UpdatedAll(current, patch, now) ==
  [f \in DOMAIN current \cup DOMAIN patch \cup {"updated_at"} |->
     IF f = "updated_at" THEN now
     ELSE IF f \in DOMAIN patch THEN patch[f] ELSE current[f]]

\* sessionStore.ts 99-106: updated of updateState
Updated(current, patch, now) ==
  [f \in DOMAIN Merge(current, patch) \cup {"updated_at"} |->
     IF f = "updated_at" THEN now ELSE Merge(current, patch)[f]]

\* the patches of updateState: none, a status, the identity fields with a
\* status, a field the program does not know, updated_at with a counter
StorePatches ==
  {<<>>, [status |-> "done"],
   [session_id |-> 2, goal |-> "z", status |-> "failed"],
   [x |-> "v"], [updated_at |-> 9, turns_completed |-> 1]}

\* a caller: its call, what create has written, and whether the lock was
\* taken when it called
IdleCaller ==
  [pc |-> "idle", op |-> "none", patch |-> <<>>, written |-> {}, waited |-> FALSE]

NoLast == [patch |-> <<>>, before |-> <<>>, now |-> 0, done |-> FALSE]

\* variant: prev.then(fn): the chain goes on after a fulfilled call only
afterSettledResolved(lock, outcome) == IF outcome = "ok" THEN Tail(lock) ELSE lock

\* sessionStore.ts 19-20: prev.then(fn, fn): the call leaves the chain when
\* it settles, resolved or rejected, and the next function runs
afterSettled(lock, outcome) == Tail(lock)

\* sessionStore.ts 21-27: the map entry of the session is deleted when the
\* call settles, if it still is the entry this call has set
cleanup(entry, c) == IF entry = c THEN "none" ELSE entry

\* the store over an empty data directory; io.entry is the call whose
\* promise the locks map holds for the session
StoreOpen ==
  /\ io.pc = "none"
  /\ io' = [pc |-> "store", task |-> NoFile, state |-> NoFile, lock |-> <<>>,
            callers |-> [c \in Callers |-> IdleCaller], now |-> 0, creates |-> 0,
            ok |-> 0, fail |-> 0, last |-> NoLast, entry |-> "none"]
  /\ UNCHANGED <<engine, run, calls, req>>

\* new Date() advances
StoreTick ==
  /\ io.pc = "store"
  /\ io.now < MaxNow
  /\ io' = [io EXCEPT !.now = @ + 1]
  /\ UNCHANGED <<engine, run, calls, req>>

\* sessionStore.ts 18-29, 31-33: create(id, task) enters withLock
StoreCallCreate(c) ==
  /\ io.pc = "store"
  /\ io.callers[c].pc = "idle"
  /\ io.creates < MaxCreates
  /\ io' = [io EXCEPT !.callers[c] = [IdleCaller EXCEPT !.pc = "queued", !.op = "create",
                                                        !.waited = io.lock # <<>>],
                       !.lock = Append(@, c), !.entry = c, !.creates = @ + 1]
  /\ UNCHANGED <<engine, run, calls, req>>

\* sessionStore.ts 18-29, 93-95: updateState(id, patch) enters withLock
StoreCallUpdate(c, patch) ==
  /\ io.pc = "store"
  /\ io.callers[c].pc = "idle"
  /\ io' = [io EXCEPT !.callers[c] = [IdleCaller EXCEPT !.pc = "queued", !.op = "update",
                                                        !.patch = patch,
                                                        !.waited = io.lock # <<>>],
                       !.lock = Append(@, c), !.entry = c]
  /\ UNCHANGED <<engine, run, calls, req>>

\* the function of the caller is the one the lock runs
AtHead(c) == io.pc = "store" /\ io.lock # <<>> /\ Head(io.lock) = c

\* variant: fs.access always fails with ENOENT
accessNever(file) == FALSE

\* fs.access of a file succeeds
access(file) == file # NoFile

\* sessionStore.ts 36-44: the session exists: create throws; or mkdir
StoreAccess(c) ==
  /\ AtHead(c)
  /\ io.callers[c].pc = "queued"
  /\ io.callers[c].op = "create"
  /\ io' = IF access(io.task)
             THEN [io EXCEPT !.callers[c].pc = "failed", !.lock = afterSettled(@, "failed"),
                             !.entry = cleanup(@, c), !.fail = @ + 1]
             ELSE [io EXCEPT !.callers[c].pc = "writing"]
  /\ UNCHANGED <<engine, run, calls, req>>

\* sessionStore.ts 63: writeFile(task.json)
StoreWriteTask(c) ==
  /\ AtHead(c)
  /\ io.callers[c].pc = "writing"
  /\ "task" \notin io.callers[c].written
  /\ io' = [io EXCEPT !.task = Json(TaskOf(c)), !.callers[c].written = @ \cup {"task"}]
  /\ UNCHANGED <<engine, run, calls, req>>

\* sessionStore.ts 64: writeFile(shared_state.json)
StoreWriteState(c) ==
  /\ AtHead(c)
  /\ io.callers[c].pc = "writing"
  /\ "state" \notin io.callers[c].written
  /\ io' = [io EXCEPT !.state = Json(StoredInitialState(TaskOf(c), io.now)),
                       !.callers[c].written = @ \cup {"state"}]
  /\ UNCHANGED <<engine, run, calls, req>>

\* sessionStore.ts 62-66: both writes are done, create resolves
StoreResolve(c) ==
  /\ AtHead(c)
  /\ io.callers[c].pc = "writing"
  /\ io.callers[c].written = {"task", "state"}
  /\ io' = [io EXCEPT !.callers[c].pc = "ok", !.lock = afterSettled(@, "ok"),
                       !.entry = cleanup(@, c), !.ok = @ + 1]
  /\ UNCHANGED <<engine, run, calls, req>>

\* sessionStore.ts 95-112: updateState reads, merges, writes and renames; it
\* throws when there is no state to read
StoreUpdate(c) ==
  /\ AtHead(c)
  /\ io.callers[c].pc = "queued"
  /\ io.callers[c].op = "update"
  /\ io' = IF ~IsJson(io.state)
             THEN [io EXCEPT !.callers[c].pc = "failed", !.lock = afterSettled(@, "failed"),
                             !.entry = cleanup(@, c)]
             ELSE [io EXCEPT !.callers[c].pc = "ok", !.lock = afterSettled(@, "ok"),
                             !.entry = cleanup(@, c),
                             !.state = Json(Updated(io.state.doc, io.callers[c].patch, io.now)),
                             !.last = [patch |-> io.callers[c].patch, before |-> io.state.doc,
                                       now |-> io.now, done |-> TRUE]]
  /\ UNCHANGED <<engine, run, calls, req>>

\* the caller has its answer
StoreReturn(c) ==
  /\ io.pc = "store"
  /\ io.callers[c].pc \in {"ok", "failed"}
  /\ io' = [io EXCEPT !.callers[c] = IdleCaller]
  /\ UNCHANGED <<engine, run, calls, req>>

StoreNext ==
  \/ StoreOpen
  \/ StoreTick
  \/ \E c \in Callers : StoreCallCreate(c)
  \/ \E c \in Callers, patch \in StorePatches : StoreCallUpdate(c, patch)
  \/ \E c \in Callers : StoreAccess(c)
  \/ \E c \in Callers : StoreWriteTask(c)
  \/ \E c \in Callers : StoreWriteState(c)
  \/ \E c \in Callers : StoreResolve(c)
  \/ \E c \in Callers : StoreUpdate(c)
  \/ \E c \in Callers : StoreReturn(c)

StoreSpec == Init /\ [][StoreNext]_vars

\* the stored state is the result of an updateState
JustUpdated ==
  /\ io.pc = "store"
  /\ io.last.done
  /\ IsJson(io.state)
  /\ io.state.doc = Updated(io.last.before, io.last.patch, io.last.now)

\* C29: updateState changes the fields of the patch other than session_id
\* and goal to the values of the patch and updated_at to the time of the
\* update, and keeps every other field of the record it read, the fields the
\* program does not know included; session_id and goal are those of create.
C29_UpdateFrame ==
  (io.pc = "store" /\ IsJson(io.state)) =>
    /\ IsJson(io.task) =>
         /\ io.state.doc.session_id = io.task.doc.session_id
         /\ io.state.doc.goal = io.task.doc.goal
    /\ io.last.done =>
         /\ DOMAIN io.state.doc = DOMAIN io.last.before \cup DOMAIN io.last.patch
         /\ \A f \in DOMAIN io.state.doc :
              io.state.doc[f] =
                IF f = "updated_at" THEN io.last.now
                ELSE IF f \in DOMAIN io.last.patch \ {"session_id", "goal"}
                  THEN io.last.patch[f]
                ELSE io.last.before[f]

\* an update with the identity fields in its patch lands on a record that
\* carries a field the program does not know
C29_Witness ==
  /\ JustUpdated
  /\ "goal" \in DOMAIN io.last.patch
  /\ "x" \in DOMAIN io.last.before
  /\ io.state.doc.status = "failed"

\* the step in which the create of a caller settles with the given outcome
CreateSettles(c, outcome) ==
  /\ io.callers[c].op = "create"
  /\ io.callers[c].pc \in {"queued", "writing"}
  /\ io'.callers[c].pc = outcome

\* the sequences of a state document
Sequences == {"progress", "blockers", "files_changed", "artifacts", "fallback_events"}

\* C30: a create on an id whose task.json exists fails and changes neither
\* file; of the create calls for one id, concurrent or not, exactly one
\* succeeds; when a create succeeds the stored state has status running,
\* turns_completed 0 and empty sequences.
C30_CreateOnce ==
  [][(io.pc = "store" /\ io'.pc = "store") =>
       /\ io'.ok <= 1
       /\ io'.ok + io'.fail >= 1 => io'.ok = 1
       /\ \A c \in Callers :
            /\ (io.callers[c].op = "create" /\ io.callers[c].pc = "queued"
                  /\ AtHead(c) /\ io.task # NoFile)
                 => (io'.callers[c].pc = "failed" \/ io'.callers[c] = io.callers[c])
            /\ CreateSettles(c, "failed") => io'.task = io.task /\ io'.state = io.state
            /\ CreateSettles(c, "ok") =>
                 /\ io'.task = Json(TaskOf(c))
                 /\ IsJson(io'.state)
                 /\ io'.state.doc.status = "running"
                 /\ io'.state.doc.turns_completed = 0
                 /\ \A f \in Sequences : io'.state.doc[f] = "[]"]_vars

\* two create calls were in the lock together: one succeeded, the other failed
C30_Witness ==
  /\ io.pc = "store"
  /\ \E c, d \in Callers :
       /\ io.callers[c].op = "create" /\ io.callers[c].pc = "ok"
       /\ io.callers[d].op = "create" /\ io.callers[d].pc = "failed"
       /\ io.callers[d].waited
  /\ io.ok = 1
  /\ io.fail = 1

\* ------------------------------------------------------------------------
\* The numeric fields of a submission.  A field is absent (or no number) or
\* an integer.
turnsMaxCap == 50

timeoutSecondsCap == 1800

DefaultTurnsMax == 20

DefaultTimeoutSeconds == 600

\* a cap below the defaults, as a configuration object can carry
LowCap == 5

NoNumber == [present |-> FALSE]

Num(n) == [present |-> TRUE, value |-> n]

Min(a, b) == IF a < b THEN a ELSE b

\* variant: zero counts as a given value
sanitizeNumberFromZero(field, default, cap) ==
  Min(IF field.present /\ field.value >= 0 THEN field.value ELSE default, cap)

\* policy 79-87: Math.min(typeof v === 'number' && v > 0 ? v : default, cap)
sanitizeNumber(field, default, cap) ==
  Min(IF field.present /\ field.value > 0 THEN field.value ELSE default, cap)

\* turns_max of a submission: absent, and the integers around 0, the
\* default and the caps
TurnsInputs ==
  {NoNumber} \cup {Num(n) : n \in (-2..(LowCap + 2)) \cup ((DefaultTurnsMax - 1)..(DefaultTurnsMax + 1))
                                   \cup ((turnsMaxCap - 1)..(turnsMaxCap + 2))}

\* timeout_seconds of a submission
TimeoutInputs ==
  {NoNumber} \cup {Num(n) : n \in (-1..1) \cup (LowCap..(LowCap + 1))
                                   \cup ((DefaultTimeoutSeconds - 1)..(DefaultTimeoutSeconds + 1))
                                   \cup ((timeoutSecondsCap - 1)..(timeoutSecondsCap + 1))}

\* the caps of the configuration
TurnCaps == {LowCap, turnsMaxCap}

TimeoutCaps == {LowCap, timeoutSecondsCap}

\* policy 79-98: the sanitized numbers of a valid submission
SanitizeNumbers(turns, timeout, turnsCap, timeoutCap) ==
  /\ io.pc \in {"none", "policy"}
  /\ io' = [pc |-> "policy", turns |-> turns, timeout |-> timeout,
            turnsCap |-> turnsCap, timeoutCap |-> timeoutCap,
            turns_max |-> sanitizeNumber(turns, DefaultTurnsMax, turnsCap),
            timeout_seconds |-> sanitizeNumber(timeout, DefaultTimeoutSeconds, timeoutCap)]
  /\ UNCHANGED <<engine, run, calls, req>>

PolicyNext ==
  \E turns \in TurnsInputs, timeout \in TimeoutInputs,
     turnsCap \in TurnCaps, timeoutCap \in TimeoutCaps :
    SanitizeNumbers(turns, timeout, turnsCap, timeoutCap)

PolicySpec == Init /\ [][PolicyNext]_vars

\* the value the statement gives for a field
Clamped(field, default, cap) ==
  IF field.present /\ field.value >= 1 THEN Min(field.value, cap) ELSE Min(default, cap)

\* C31: the sanitized turns_max and timeout_seconds lie between 1 and the
\* cap; a value of at least 1 gives min(value, cap), an absent or
\* non-positive one the default limited by the cap.
C31_Clamped ==
  io.pc = "policy" =>
    /\ io.turns_max \in 1..io.turnsCap
    /\ io.timeout_seconds \in 1..io.timeoutCap
    /\ io.turns_max = Clamped(io.turns, DefaultTurnsMax, io.turnsCap)
    /\ io.timeout_seconds = Clamped(io.timeout, DefaultTimeoutSeconds, io.timeoutCap)

\* zero turns give the default, a timeout above the cap gives the cap
C31_Witness ==
  /\ io.pc = "policy"
  /\ io.turns = Num(0)
  /\ io.turns_max = DefaultTurnsMax
  /\ io.timeout = Num(timeoutSecondsCap + 1)
  /\ io.timeout_seconds = timeoutSecondsCap

\* ------------------------------------------------------------------------
\* The blockers of an output.  The matches of FILE_LINE_PATTERN in the text
\* are a sequence of file:range keys, in the order of the text.
MAX_BLOCKERS == 2

BlockerKeys == {"a:1", "b:2", "c:3"}

MaxMatches == 5

\* the matches a text can have
MatchLists == UNION {[1..n -> BlockerKeys] : n \in 0..MaxMatches}

\* variant: a key that was seen is pushed again
RECURSIVE extractFromAll(_, _, _)
extractFromAll(matches, seen, blockers) ==
  IF matches = <<>> \/ Len(blockers) >= MAX_BLOCKERS THEN blockers
  ELSE extractFromAll(Tail(matches), seen \cup {Head(matches)}, Append(blockers, Head(matches)))

\* blockerExtractor 53-68: the loop over the matches
RECURSIVE extractFrom(_, _, _)
extractFrom(matches, seen, blockers) ==
  IF matches = <<>> \/ Len(blockers) >= MAX_BLOCKERS THEN blockers
  ELSE IF Head(matches) \in seen THEN extractFrom(Tail(matches), seen, blockers)
  ELSE extractFrom(Tail(matches), seen \cup {Head(matches)}, Append(blockers, Head(matches)))

\* blockerExtractor 49-71: the keys of the blockers returned
extractBlockers(matches) == extractFrom(matches, {}, <<>>)

\* claudeCode.ts 174-178 and app.ts 335-358: the blockers of a run are
\* extractBlockers(...).slice(0, 10); they go into the state with the
\* progress patch and with the final patch
ExtractOutput(matches) ==
  /\ io.pc \in {"none", "blockers"}
  /\ io' = [pc |-> "blockers", matches |-> matches, blockers |-> extractBlockers(matches),
            stored |-> firstN(extractBlockers(matches), MAX_BLOCKERS)]
  /\ UNCHANGED <<engine, run, calls, req>>

BlockerNext == \E matches \in MatchLists : ExtractOutput(matches)

BlockerSpec == Init /\ [][BlockerNext]_vars

\* the positions at which a key occurs for the first time
FirstAt(matches) ==
  {i \in 1..Len(matches) : \A j \in 1..(i - 1) : matches[j] # matches[i]}

\* C32: extractBlockers returns at most MAX_BLOCKERS entries, no two with
\* the same key, in the order in which the keys first occur in the text:
\* entry k is the k-th key that occurs for the first time; the stored
\* blockers are no more than MAX_BLOCKERS.
C32_FirstKeysOnce ==
  io.pc = "blockers" =>
    /\ Len(io.blockers) <= MAX_BLOCKERS
    /\ Len(io.stored) <= MAX_BLOCKERS
    /\ io.stored = io.blockers
    /\ \A i, j \in 1..Len(io.blockers) : i # j => io.blockers[i] # io.blockers[j]
    /\ Len(io.blockers) = Min(MAX_BLOCKERS, Cardinality(FirstAt(io.matches)))
    /\ \A k \in 1..Len(io.blockers) :
         \E i \in FirstAt(io.matches) :
           /\ io.matches[i] = io.blockers[k]
           /\ Cardinality({m \in FirstAt(io.matches) : m < i}) = k - 1

\* a text with a repeated key and more keys than the cap
C32_Witness ==
  /\ io.pc = "blockers"
  /\ io.matches = <<"b:2", "b:2", "a:1", "c:3">>
  /\ io.blockers = <<"b:2", "a:1">>

\* ------------------------------------------------------------------ C33
\* the updateState calls runWorker makes (app.ts 337, 346, 361)
SupervisorKinds == {"progress", "final", "error"}

\* the rename of an updateState of kind k lands on shared_state.json
Lands(s, k) == ops[s][k].pc = "tmp" /\ ops'[s][k].pc = "renamed"

\* an updateState of kind k is called
Issued(s, k) == ops[s][k].pc = "idle" /\ ops'[s][k].pc = "queued"

\* C33 (as claimed): once ac.abort() has set the signal of a session, no
\* progress, final or worker-error update is applied to its persisted
\* state, updates already queued in the serializer included.
C33_NoSupervisorWriteAfterSignal ==
  [][\A s \in Ids : \A k \in SupervisorKinds : Lands(s, k) => s \notin aborted]_vars

\* C33 (what the code does): once the signal is set runWorker calls no
\* further updateState; an update called before the signal still lands.
C33_NoSupervisorCallAfterSignal ==
  [][\A s \in Ids : \A k \in SupervisorKinds : Issued(s, k) => s \notin aborted]_vars

\* a supervisor update is in the serializer while the signal is set
C33_QueuedAtSignal ==
  \E s \in aborted : \E k \in SupervisorKinds : ops[s][k].pc \in {"queued", "merged", "tmp"}

\* ------------------------------------------------------------------ C34
\* the spawns made so far, the one whose child has not yet closed included
SpawnsMade == Len(run.spawns) + (IF run.pc = "child" THEN 1 ELSE 0)

\* the fallback sequences the claim allows
FallbackOrders ==
  {<<>>, <<"--allowedTools">>, <<"--output-format">>,
   <<"--allowedTools", "--output-format">>}

\* C34: one run makes at most three spawns and records at most two fallback
\* events, --allowedTools at most once and only before --output-format,
\* --output-format at most once; the --print attempt is the last spawn; the
\* result returned carries the exit code and timed-out flag of the last spawn.
C34_BoundedFallbacks ==
  run.pc # "none" =>
    /\ SpawnsMade <= 3
    /\ Len(run.events) <= 2
    /\ run.events \in FallbackOrders
    /\ SpawnsMade <= Len(run.events) + 1
    /\ \A i \in 1..Len(run.spawns) :
         run.spawns[i].args.format = "print" => i = Len(run.spawns) /\ run.pc # "child"
    /\ run.pc \in {"logs", "progress", "gather", "final"} =>
         /\ run.spawns # <<>>
         /\ WorkerResult(run).exit_code = run.spawns[Len(run.spawns)].res.exitCode
         /\ WorkerResult(run).timed_out = run.spawns[Len(run.spawns)].res.timedOut

\* C34 witness: three spawns, both fallbacks in order, the --print attempt
\* failed with an unknown-flag error too and was not retried; its exit code
\* is the one returned.
C34_Witness ==
  /\ run.pc = "final"
  /\ Len(run.spawns) = 3
  /\ run.events = <<"--allowedTools", "--output-format">>
  /\ run.spawns[3].args.format = "print"
  /\ run.spawns[3].res.exitCode = 1
  /\ isUnknownFlagError(run.spawns[3].res.stderr)
  /\ run.spawns[1].res.exitCode # WorkerResult(run).exit_code

\* ======================================== the routes of /v1/sessions/:id
\* The six routes that take a session id, for ids given as strings of
\* characters; io.sessions is the data directory (task.json and
\* shared_state.json of a session are written together here), io.before the
\* directory when the last request arrived, io.resp the answer to it.
\* SESSION_ID_MAX stands for the 128 of SESSION_ID_PATTERN.
SESSION_ID_MAX == 2

\* the characters of an id: one of the class [a-zA-Z0-9_-] and one outside
IdChars == {"a", "."}

IdClass == {"a"}

\* the :id parameters of a request (Express matches one non-empty segment)
IdStrings ==
  UNION {[1..n -> IdChars] : n \in 1..(SESSION_ID_MAX + 1)}

\* the ids of the sessions the store creates
StoreIds == {<<"a">>, <<"a", "a">>}

\* sessionStore.ts 5-11: SESSION_ID_PATTERN.test(sessionId); FALSE is a throw
validateSessionId(sessionId) ==
  /\ Len(sessionId) \in 1..SESSION_ID_MAX
  /\ \A i \in 1..Len(sessionId) : sessionId[i] \in IdClass

\* sessionStore.ts 69-91: getState or getTask: it throws, or returns null
\* (ENOENT), or returns the document
lookup(sessions, sessionId) ==
  IF ~validateSessionId(sessionId) THEN "thrown"
  ELSE IF sessionId \notin StoreIds THEN "null"
  ELSE IF sessions[sessionId] = "none" THEN "null"
  ELSE "found"

NoRouteResp == [route |-> "none"]

RouteResp(route, id, code) == [route |-> route, id |-> id, code |-> code]

\* an async handler rejected: Express 5 answers 500, Express 4 never answers
Thrown == {500, Null}

RouteIdle == io.pc \in {"none", "route"}

RouteSessions == IF io.pc = "route" THEN io.sessions ELSE [id \in StoreIds |-> "none"]

\* the request is answered with code and leaves the directory as sessions
Answered(route, id, code, sessions) ==
  io' = [pc |-> "route", sessions |-> sessions, before |-> RouteSessions,
         resp |-> RouteResp(route, id, code)]

\* sessionStore.ts 31-67: a session is created, status running
RouteCreate(id) ==
  /\ RouteIdle
  /\ RouteSessions[id] = "none"
  /\ io' = [pc |-> "route", sessions |-> [RouteSessions EXCEPT ![id] = "running"],
            before |-> RouteSessions, resp |-> NoRouteResp]
  /\ UNCHANGED <<engine, run, calls, req>>

\* app.ts 341-365: the worker of a running session ends
RouteComplete(id, status) ==
  /\ io.pc = "route"
  /\ io.sessions[id] = "running"
  /\ io' = [io EXCEPT !.sessions[id] = status, !.before = io.sessions,
                      !.resp = NoRouteResp]
  /\ UNCHANGED <<engine, run, calls, req>>

\* app.ts 91-98: GET /v1/sessions/:id/state
RouteState(id) ==
  /\ RouteIdle
  /\ \E thrown \in Thrown :
       LET found == lookup(RouteSessions, id)
       IN Answered("state", id,
            IF found = "thrown" THEN thrown ELSE IF found = "null" THEN 404 ELSE 200,
            RouteSessions)
  /\ UNCHANGED <<engine, run, calls, req>>

\* app.ts 101-125: POST /v1/sessions/:id/abort
RouteAbort(id) ==
  /\ RouteIdle
  /\ \E thrown \in Thrown :
       LET found == lookup(RouteSessions, id)
       IN IF found = "thrown" THEN Answered("abort", id, thrown, RouteSessions)
          ELSE IF found = "null" THEN Answered("abort", id, 404, RouteSessions)
          ELSE IF RouteSessions[id] # "running"
            THEN Answered("abort", id, 409, RouteSessions)
          ELSE Answered("abort", id, 200, [RouteSessions EXCEPT ![id] = "aborted"])
  /\ UNCHANGED <<engine, run, calls, req>>

\* app.ts 128-176: GET /v1/sessions/:id/excerpt; for a stored session the
\* answer is 400 without a path, else what validatePath and readFile give
RouteExcerpt(id, hasPath, outcome) ==
  /\ RouteIdle
  /\ \E thrown \in Thrown :
       LET found == lookup(RouteSessions, id)
       IN Answered("excerpt", id,
            IF found = "thrown" THEN thrown
            ELSE IF found = "null" THEN 404
            ELSE IF ~hasPath THEN 400 ELSE outcome,
            RouteSessions)
  /\ UNCHANGED <<engine, run, calls, req>>

\* app.ts 179-187: GET /v1/sessions/:id/artifacts
RouteArtifacts(id) ==
  /\ RouteIdle
  /\ \E thrown \in Thrown :
       LET found == lookup(RouteSessions, id)
       IN Answered("artifacts", id,
            IF found = "thrown" THEN thrown ELSE IF found = "null" THEN 404 ELSE 200,
            RouteSessions)
  /\ UNCHANGED <<engine, run, calls, req>>

\* app.ts 190-222: GET /v1/sessions/:id/artifacts/:name; for a stored
\* session the answer is 200 for a listed file that is served, else 404
RouteArtifact(id, served) ==
  /\ RouteIdle
  /\ \E thrown \in Thrown :
       LET found == lookup(RouteSessions, id)
       IN Answered("artifact", id,
            IF found = "thrown" THEN thrown
            ELSE IF found = "null" THEN 404
            ELSE IF served THEN 200 ELSE 404,
            RouteSessions)
  /\ UNCHANGED <<engine, run, calls, req>>

\* app.ts 225-258: GET /v1/sessions/:id/logtail
RouteLogtail(id, stream) ==
  /\ RouteIdle
  /\ \E thrown \in Thrown :
       LET found == lookup(RouteSessions, id)
       IN Answered("logtail", id,
            IF found = "thrown" THEN thrown
            ELSE IF found = "null" THEN 404
            ELSE IF stream \notin {"stdout", "stderr"} THEN 400 ELSE 200,
            RouteSessions)
  /\ UNCHANGED <<engine, run, calls, req>>

RouteNext ==
  \/ \E id \in StoreIds : RouteCreate(id)
  \/ \E id \in StoreIds, status \in {"done", "failed"} : RouteComplete(id, status)
  \/ \E id \in IdStrings : RouteState(id)
  \/ \E id \in IdStrings : RouteAbort(id)
  \/ \E id \in IdStrings, hasPath \in BOOLEAN, outcome \in {200, 403, 404} :
       RouteExcerpt(id, hasPath, outcome)
  \/ \E id \in IdStrings : RouteArtifacts(id)
  \/ \E id \in IdStrings, served \in BOOLEAN : RouteArtifact(id, served)
  \/ \E id \in IdStrings, stream \in {"stdout", "stderr", "other"} : RouteLogtail(id, stream)

RouteSpec == Init /\ [][RouteNext]_vars

\* a request was answered
RouteAnswered == io.pc = "route" /\ io.resp # NoRouteResp

\* the id named a stored session when the request arrived
NamedSession == io.resp.id \in StoreIds /\ io.before[io.resp.id] # "none"

\* C35 (as claimed): a request of one of the six routes whose id names no
\* stored session, whatever its characters or length, is answered 404 and
\* changes no state.
C35_UnknownIs404 ==
  (RouteAnswered /\ ~NamedSession) =>
    /\ io.resp.code = 404
    /\ io.sessions = io.before

\* C35 for the ids that match SESSION_ID_PATTERN: 404 and no change
C35_WellFormedUnknownIs404 ==
  (RouteAnswered /\ ~NamedSession /\ validateSessionId(io.resp.id)) =>
    /\ io.resp.code = 404
    /\ io.sessions = io.before

\* C35, the part about state: no request for an id that names no stored
\* session changes the directory
C35_UnknownChangesNothing ==
  (RouteAnswered /\ ~NamedSession) => io.sessions = io.before

\* an id of SESSION_ID_MAX + 1 characters of the class was asked for while
\* a session was stored
C35_TooLong ==
  /\ RouteAnswered
  /\ io.resp.id = <<"a", "a", "a">>
  /\ io.resp.route = "abort"
  /\ io.sessions[<<"a">>] = "running"
  /\ io.resp.code # 404

\* ------------------------------------------------------------------ C36
\* the sessions whose stored state has status running
StoredRunning == {s \in Ids : IsJson(stateFile[s]) /\ Status(s) = "running"}

\* C36 (as claimed): once the listener accepts requests at most one stored
\* session has status running, and none has while the gate is free.
C36_RunningHoldsGate ==
  phase = "listening" =>
    /\ Cardinality(StoredRunning) <= 1
    /\ GateFree => StoredRunning = {}

\* C36 (what the code keeps): a stored session is running without holding
\* the gate only while the updateState of an abort of it is pending.
C36_RunningOrAbortPending ==
  phase = "listening" =>
    \A s \in StoredRunning :
      \/ currentSessionId = s
      \/ ops[s]["abort"].pc # "idle"

\* a second task was accepted and stored as running while the first session
\* was still persisted as running
C36_TwoRunning == phase = "listening" /\ Cardinality(StoredRunning) = 2

\* ========================================== markAbortedOnStartup alone
\* One data directory left by an earlier process and two consecutive calls
\* of markAbortedOnStartup over it, with the clock of updated_at. io.dir
\* maps each directory entry to its shared_state.json, io.start is the
\* directory as found, io.after the directory after the first call.
MaxRuns == 2
MaxClock == 2

\* the entry is a plain file: readFile of <entry>/shared_state.json fails
\* with ENOTDIR
NotDir == [kind |-> "notdir"]

\* shared_state.json holds the JSON text null
JsonNull == [kind |-> "null"]

\* the entries of the data directory, in the order readdir lists them
EntryList == << <<".">>, <<"a">>, <<"a", "a">> >>

Entries == {EntryList[i] : i \in 1..Len(EntryList)}

\* the states an earlier process can have left
RecoveryDocs ==
  {[StoredInitialState(TaskOf("a"), 0) EXCEPT !.status = "running"]}
  \cup {[StoredInitialState(TaskOf("a"), 0) EXCEPT !.status = st, !.error_summary = es] :
          st \in Terminal, es \in {"null", "Aborted by client request"}}

RecoveryFiles == {NoFile, Partial, NotDir, JsonNull} \cup {Json(d) : d \in RecoveryDocs}

RecoveryDirs == [Entries -> RecoveryFiles]

\* sessionStore.ts 69-79: getState throws unless the file is absent or parses
getStateThrows(f) == f.kind \in {"partial", "notdir"}

\* the process starts over a directory left on disk; readdir works or not
RecoveryOpen(dir, readable) ==
  /\ io.pc = "none"
  /\ io' = [pc |-> "recovery", dir |-> dir, start |-> dir, after |-> dir,
            readable |-> readable, idx |-> 0, runs |-> 0, now |-> 1,
            caught |-> 0]
  /\ UNCHANGED <<engine, run, calls, req>>

\* time passes
RecoveryTick ==
  /\ io.pc = "recovery"
  /\ io.now < MaxClock
  /\ io' = [io EXCEPT !.now = @ + 1]
  /\ UNCHANGED <<engine, run, calls, req>>

\* sessionStore.ts 145-151: markAbortedOnStartup is called: readdir; a
\* failure of readdir ends the call
RecoveryStart ==
  /\ io.pc = "recovery"
  /\ io.idx = 0
  /\ io.runs < MaxRuns
  /\ io' = IF io.readable THEN [io EXCEPT !.idx = 1]
           ELSE [io EXCEPT !.runs = @ + 1,
                           !.after = IF io.runs = 0 THEN io.dir ELSE @]
  /\ UNCHANGED <<engine, run, calls, req>>

\* sessionStore.ts 153-165: one entry of the loop: the name is tested, the
\* state read, a running session updated; whatever is thrown is caught
RecoveryEntry ==
  /\ io.pc = "recovery"
  /\ io.idx \in 1..Len(EntryList)
  /\ LET entry == EntryList[io.idx]
         f == io.dir[entry]
     IN io' = IF ~validateSessionId(entry) THEN [io EXCEPT !.idx = @ + 1]
              ELSE IF getStateThrows(f) THEN [io EXCEPT !.idx = @ + 1, !.caught = 1]
              ELSE IF NeedsRecovery(f)
                THEN [io EXCEPT !.idx = @ + 1,
                                !.dir[entry] = Json(Updated(f.doc, RecoveryPatch, io.now))]
              ELSE [io EXCEPT !.idx = @ + 1]
  /\ UNCHANGED <<engine, run, calls, req>>

\* sessionStore.ts 166: the loop is over and the call resolves
RecoveryReturn ==
  /\ io.pc = "recovery"
  /\ io.idx = Len(EntryList) + 1
  /\ io' = [io EXCEPT !.idx = 0, !.runs = @ + 1,
                      !.after = IF io.runs = 0 THEN io.dir ELSE @]
  /\ UNCHANGED <<engine, run, calls, req>>

RecoveryNext ==
  \/ \E dir \in RecoveryDirs, readable \in BOOLEAN : RecoveryOpen(dir, readable)
  \/ RecoveryTick
  \/ RecoveryStart
  \/ RecoveryEntry
  \/ RecoveryReturn

RecoverySpec == Init /\ [][RecoveryNext]_vars

\* the entry held a parsed state with a terminal status when the process
\* started
TerminalAtStart(e) == IsJson(io.start[e]) /\ io.start[e].doc.status \in Terminal

\* C37: markAbortedOnStartup leaves every session that is done, failed or
\* aborted as it was, updated_at and error_summary included; entries that
\* are malformed (a name outside the pattern, no state, an unparsable state,
\* a plain file) are skipped and left as they were, and the call goes on to
\* mark the running sessions among the later entries; a second call changes
\* nothing.
C37_TerminalUntouched ==
  io.pc = "recovery" =>
    /\ \A e \in Entries : TerminalAtStart(e) => io.dir[e] = io.start[e]
    /\ \A e \in Entries :
         (~validateSessionId(e) \/ ~IsJson(io.start[e])) => io.dir[e] = io.start[e]
    /\ (io.runs >= 1 /\ io.readable) =>
         \A e \in Entries :
           (validateSessionId(e) /\ IsJson(io.start[e]) /\ io.start[e].doc.status = "running")
             => /\ IsJson(io.dir[e])
                /\ io.dir[e].doc.status = "aborted"
                /\ io.dir[e].doc.error_summary = RecoveryPatch.error_summary
    /\ io.runs >= 1 => io.dir = io.after

\* C37 witness: two calls are over, the clock has moved; a session aborted
\* by a client under a name outside the pattern and an unparsable state
\* precede a running session in the listing: the error of the second was
\* caught, the third was marked by the first call and kept its updated_at
\* in the second.
C37_Witness ==
  /\ io.pc = "recovery"
  /\ io.runs = MaxRuns
  /\ io.now = MaxClock
  /\ io.caught = 1
  /\ TerminalAtStart(<<".">>)
  /\ io.start[<<".">>].doc.error_summary = "Aborted by client request"
  /\ io.start[<<"a">>] = Partial
  /\ io.dir[<<"a">>] = Partial
  /\ IsJson(io.start[<<"a", "a">>])
  /\ io.start[<<"a", "a">>].doc.status = "running"
  /\ io.dir[<<"a", "a">>].doc.status = "aborted"
  /\ io.dir[<<"a", "a">>].doc.updated_at = 1

\* ------------------------------------------------------------------ C38
\* the call of the caller has not settled
Pending(callers, c) == callers[c].pc \in {"queued", "writing"}

\* the step in which the queued call of a caller starts to run
Starts(c) == io.callers[c].pc = "queued" /\ io'.callers[c].pc # "queued"

\* C38: a create or updateState that fails leaves the chain of its session
\* like one that succeeds: a call runs only as the oldest unsettled call, the
\* chain holds unsettled calls only, a call fails on what it finds on disk
\* alone (updateState when there is no state, create when task.json exists),
\* a failed updateState creates no file, and the locks map has no entry for
\* the session once every call has settled.
C38_FailureFreesChain ==
  [][(io.pc = "store" /\ io'.pc = "store") =>
       /\ \A i \in 1..Len(io'.lock) : Pending(io'.callers, io'.lock[i])
       /\ \A c \in Callers : Pending(io'.callers, c) => c \in Range(io'.lock)
       /\ (\A c \in Callers : ~Pending(io'.callers, c)) => io'.entry = "none"
       /\ \A c \in Callers :
            Starts(c) =>
              /\ AtHead(c)
              /\ io.callers[c].op = "update" =>
                   /\ (io'.callers[c].pc = "failed") = ~IsJson(io.state)
                   /\ io'.callers[c].pc = "failed" =>
                        io'.task = io.task /\ io'.state = io.state
              /\ io.callers[c].op = "create" =>
                   (io'.callers[c].pc = "failed") = (io.task # NoFile)]_vars

\* C38 witness: an updateState on a session that does not exist was
\* rejected, no file exists; the create that was queued behind it runs, and
\* the map entry is the create's.
C38_Witness ==
  /\ io.pc = "store"
  /\ io.callers["a"].op = "update"
  /\ io.callers["a"].pc = "failed"
  /\ io.callers["b"].op = "create"
  /\ io.callers["b"].waited
  /\ io.callers["b"].pc = "writing"
  /\ io.lock = <<"b">>
  /\ io.entry = "b"
  /\ io.creates = 1
  /\ io.task = NoFile
  /\ io.state = NoFile

\* every call has settled after a rejection and the map is empty
C38_Emptied ==
  /\ io.pc = "store"
  /\ io.callers["a"].pc = "failed"
  /\ io.callers["b"].pc = "ok"
  /\ io.callers["b"].waited
  /\ io.lock = <<>>
  /\ io.entry = "none"

====
